---- MODULE Spec2Model ----
(***************************************************************************)
(* A model of claude/get_usage.py: the PTY-driven fetch of the /usage      *)
(* screen (fetch_usage_via_pty), its poll loop, teardown and final parse,  *)
(* and the removal of a throwaway session's artifacts (clean_session).     *)
(* Further specifications in the same module follow clean_history          *)
(* (SpecHistory), parse_usage_output (SpecParse), single calls of          *)
(* _parse_reset_date, the time parsing and find_claude (SpecCalls),        *)
(* strip_ansi on characters (SpecStrip), the processes of one spawn and    *)
(* teardown (SpecGroup), main with its cache file (SpecMain), and          *)
(* load_all_records of claude/ccreport.py (SpecRecords).                   *)
(*                                                                         *)
(* Time is counted in tenths of a second (ds): 0.1 s = 1, 0.5 s = 5.       *)
(***************************************************************************)
EXTENDS Integers, Sequences, FiniteSets, TLC

VARIABLES
    \* ---- the machine the program runs on
    install,        \* what find_claude can see: PATH, install locations, nvm, npx
    claude_json,    \* ~/.claude.json: "missing", "invalid", "untrusted", "trusted"
    usage_cwd,      \* whether the directory USAGE_CWD exists
    fs,             \* the paths that exist under ~/.claude (see Paths)
    \* ---- fetch_usage_via_pty
    pc,             \* position in fetch_usage_via_pty
    claude_cmd,     \* result of find_claude()
    master,         \* PTY master descriptor: "none", "open", "closed"
    slave,          \* PTY slave descriptor:  "none", "open", "closed"
    session_id,     \* the uuid minted for the run, or NoId
    proc,           \* the child: "none", "running", "terminated" (reaped or killed)
    clock,          \* time.monotonic(), in ds
    t_start,        \* monotonic clock at spawn
    last_check,     \* monotonic clock at the last snapshot tick
    output,         \* the raw output buffer, as a sequence of chunks
    seen_fields,    \* field name -> elapsed ds at first observation
    done,           \* the loop's early-completion flag
    eof,            \* os.read of the master has returned b"" (end of file)
    total_elapsed,  \* elapsed ds measured after teardown, or -1
    result,         \* the returned data dict, or NoResult
    raw_text,       \* the returned text (second component), or NoText
    \* ---- history of the run (observations, not program state)
    loop_exit,      \* how the poll loop ended: "none" while it has not
    tick_both,      \* some snapshot tick extracted both completion fields
    td_log,         \* teardown steps performed, in order
    drain_calls,    \* number of calls of _drain_pty
    trust_writes,   \* number of writes of ~/.claude.json
    \* ---- clean_session calls
    cs_calls,       \* number of calls of clean_session so far
    cs_sid,         \* session id of the last call, or NoId
    cs_prev_sid,    \* session id of the call before it, or NoId
    cs_before,      \* fs as it was when the last call started
    cs_removed,     \* list returned by the last call
    cs_prev_removed,\* whether the call before it removed something
    cs_error,       \* the last call raised
    \* ---- clean_history: the history file and the runs that clean it
    hist_exists,    \* whether HISTORY_FILE exists
    hist_file,      \* its lines, in order
    hist_file0,     \* its lines before any run started
    hist_lock,      \* the run that holds the exclusive flock, or NoRun
    h_pc,           \* run -> position in clean_history
    h_pos,          \* run -> file offset of its descriptor, in lines
    h_lines,        \* run -> the lines it read
    h_removed,      \* run -> the number it returned, or -1
    \* ---- one call of parse_usage_output
    p_pc,           \* "ready" before the call, "parsed" after
    p_text,         \* the text, as a sequence of tokens
    p_now,          \* datetime.now() at the call
    p_out,          \* [raised, data] once parsed
    \* ---- one call of a function that reads no state of the program
    c_pc,           \* "ready" before the call, "done" after
    c_fn,           \* the function called
    c_args,         \* its arguments
    c_ret,          \* what it returned, once done
    \* ---- the processes of one spawn and teardown
    g_pc,           \* position of fetch_usage_via_pty between spawn and return
    g_alive,        \* the processes started by the spawn that are running
    g_pgid,         \* process -> the leader of its process group
    g_sigs,         \* the signals delivered, as <<process, signal>>
    \* ---- runs of main, one after the other, and the cache file
    m_pc,           \* position in main, "idle" between two runs
    m_argv,         \* [force, raw]: the flags of the run
    m_now,          \* time.time(), in seconds
    m_cache,        \* CACHE_FILE: NoCache, or [kind, keys, mtime]
    m_start,        \* [cache, now]: the cache file and the time when the run started
    m_data,         \* the keys of the dict fetch_usage_via_pty returned, or NoData
    m_log,          \* what the run has done so far, in order
    m_stdout,       \* what the run printed on stdout, or NoOutput
    m_runs          \* number of runs started

envVars   == <<install, claude_json, usage_cwd>>
fetchVars == <<pc, claude_cmd, master, slave, session_id, proc, clock, t_start,
               last_check, output, seen_fields, done, total_elapsed, result,
               raw_text, loop_exit, tick_both, td_log, drain_calls, trust_writes, eof>>
cleanVars == <<cs_calls, cs_sid, cs_prev_sid, cs_before, cs_removed, cs_prev_removed,
               cs_error>>
histVars  == <<hist_exists, hist_file, hist_file0, hist_lock, h_pc, h_pos, h_lines,
               h_removed>>
parseVars == <<p_pc, p_text, p_now, p_out>>
callVars  == <<c_pc, c_fn, c_args, c_ret>>
groupVars == <<g_pc, g_alive, g_pgid, g_sigs>>
mainVars  == <<m_pc, m_argv, m_now, m_cache, m_start, m_data, m_log, m_stdout, m_runs>>
otherVars == <<histVars, parseVars, callVars, groupVars, mainVars>>
vars      == <<envVars, fs, fetchVars, cleanVars, histVars, parseVars, callVars, groupVars,
               mainVars>>

NoId     == "no-id"
NoResult == [kind |-> "none"]
NoText   == <<"no-text">>

(***************************************************************************)
(* Bounds of the model.                                                    *)
(***************************************************************************)
\* Artifacts of other sessions (and of no session) present beside those of
\* the session under study, in the clean_session specification.
MaxOther == 1
\* Calls of clean_session in one behaviour of the clean_session specification.
MaxCleanCalls == 2

\* Session ids (uuid4 strings), project directories under projects/, and the
\* name suffixes of todos files ({session_id}-<suffix>.json).
SessionIds == {"s1", "s2"}
NoSession  == "none"
Projects   == {"pA", "pB"}
TodoSuffixes == {"agent", "task"}

(***************************************************************************)
(* The file system under CLAUDE_DIR.  A path is <<location, project,       *)
(* owner, name>>; owner is the session id the name is built from, or       *)
(* NoSession for a name built from no session id.  The kind of a path      *)
(* (file or directory) is fixed by its location.                           *)
(***************************************************************************)
TodosDir    == <<"todos/", "-", NoSession, "-">>
ProjectsDir == <<"projects/", "-", NoSession, "-">>
ProjectDir(p)  == <<"projects/*/", p, NoSession, "-">>      \* projects/p as a directory
ProjectFile(p) == <<"projects/*", p, NoSession, "-">>       \* projects/p as a plain file

DebugFile(s)      == <<"debug/{}.txt", "-", s, "-">>
SessionEnvDir(s)  == <<"session-env/{}/", "-", s, "-">>
FileHistoryDir(s) == <<"file-history/{}/", "-", s, "-">>
TodoFile(s, x)    == <<"todos/{}-*.json", "-", s, x>>
SessionFile(p, s) == <<"projects/*/{}.jsonl", p, s, "-">>
SessionSub(p, s)  == <<"projects/*/{}/", p, s, "-">>

\* The artifacts whose name is built from s (a session id or NoSession).
ArtifactsOf(s) ==
    {DebugFile(s), SessionEnvDir(s), FileHistoryDir(s)}
    \cup {TodoFile(s, x) : x \in TodoSuffixes}
    \cup {SessionFile(p, s) : p \in Projects}
    \cup {SessionSub(p, s) : p \in Projects}

Artifacts == UNION {ArtifactsOf(s) : s \in SessionIds \cup {NoSession}}
ParentNodes == {TodosDir, ProjectsDir}
                 \cup {ProjectDir(p) : p \in Projects}
                 \cup {ProjectFile(p) : p \in Projects}
Paths == Artifacts \cup ParentNodes

Owner(path) == path[3]
\* The path's text contains the session id s.
PathContains(path, s) == Owner(path) = s

\* A directory entry exists only inside an existing directory, and a name in
\* projects/ is a directory or a plain file, not both.
WellFormedFs(f) ==
    /\ f \subseteq Paths
    /\ \A p \in Projects :
          /\ ~(ProjectDir(p) \in f /\ ProjectFile(p) \in f)
          /\ (ProjectDir(p) \in f \/ ProjectFile(p) \in f) => ProjectsDir \in f
    /\ \A a \in f \cap Artifacts :
          /\ a[1] = "todos/{}-*.json" => TodosDir \in f
          /\ a[1] \in {"projects/*/{}.jsonl", "projects/*/{}/"} => ProjectDir(a[2]) \in f

\* The parent nodes a set of artifacts needs.
ParentsOf(as) ==
    {TodosDir : a \in {b \in as : b[1] = "todos/{}-*.json"}}
    \cup UNION {{ProjectsDir, ProjectDir(a[2])} :
                  a \in {b \in as : b[1] \in {"projects/*/{}.jsonl", "projects/*/{}/"}}}

(***************************************************************************)
(* clean_session.  A cleanup in progress is [fs, removed, error, vanish];   *)
(* unlink and rmtree raise on a path that does not exist, and once an      *)
(* exception is raised nothing further happens.  vanish holds the paths    *)
(* another process removes between the moment clean_session finds them and *)
(* the moment it removes them.                                             *)
(***************************************************************************)
unlink(st, path) ==
    IF st.error THEN st
    ELSE IF path \in st.fs /\ path \notin st.vanish
         THEN [st EXCEPT !.fs = st.fs \ {path}]
         ELSE [st EXCEPT !.error = TRUE, !.fs = st.fs \ {path}]

rmtree(st, path) ==
    IF st.error THEN st
    ELSE IF path \in st.fs /\ path \notin st.vanish
         THEN [st EXCEPT !.fs = st.fs \ {path}]
         ELSE [st EXCEPT !.error = TRUE, !.fs = st.fs \ {path}]

\* removed.append(str(p))
removed_append(st, path) ==
    IF st.error THEN st ELSE [st EXCEPT !.removed = Append(st.removed, path)]

unlink_and_record(st, path) == removed_append(unlink(st, path), path)
rmtree_and_record(st, path) == removed_append(rmtree(st, path), path)

\* Path.exists() / Path.is_dir() of a path whose kind its location fixes.
exists(st, path) == path \in st.fs
is_dir(st, path) == path \in st.fs

\* The same loop without the existence checks.
clean_simple_unchecked(st, sid) ==
    rmtree_and_record(
        rmtree_and_record(unlink_and_record(st, DebugFile(sid)), SessionEnvDir(sid)),
        FileHistoryDir(sid))

\* for pattern, is_dir in [debug/{sid}.txt, session-env/{sid}, file-history/{sid}]
clean_simple(st, sid) ==
    LET a == IF exists(st, DebugFile(sid)) THEN unlink_and_record(st, DebugFile(sid)) ELSE st
        b == IF ~a.error /\ is_dir(a, SessionEnvDir(sid))
             THEN rmtree_and_record(a, SessionEnvDir(sid)) ELSE a
        c == IF ~b.error /\ is_dir(b, FileHistoryDir(sid))
             THEN rmtree_and_record(b, FileHistoryDir(sid)) ELSE b
    IN  c

RECURSIVE listing(_)
\* The entries of a directory in the order a scan yields them (some order).
listing(S) ==
    IF S = {} THEN <<>>
    ELSE LET x == CHOOSE y \in S : TRUE IN <<x>> \o listing(S \ {x})

\* A pattern that lost the session id: *-*.json.
glob_todos_any_session(st, sid) == {path \in st.fs : path[1] = "todos/{}-*.json"}

\* todos_dir.glob(f"{session_id}-*.json"): the files of todos/ whose name
\* starts with the session id and a dash.
glob_todos(st, sid) == {path \in st.fs : path[1] = "todos/{}-*.json" /\ path[3] = sid}

RECURSIVE unlink_each(_, _, _)
\* for f in <matches>: f.unlink(); removed.append(str(f))
unlink_each(st, files, i) ==
    IF i > Len(files) THEN st
    ELSE unlink_each(unlink_and_record(st, files[i]), files, i + 1)

\* todos/{session_id}-*.json
clean_todos(st, sid) ==
    IF ~st.error /\ is_dir(st, TodosDir)
    THEN unlink_each(st, listing(glob_todos(st, sid)), 1)
    ELSE st

\* An iteration that forgets the session's subdirectory.
clean_project_log_only(st, sid, p) ==
    IF st.error \/ ~is_dir(st, ProjectDir(p)) THEN st
    ELSE IF exists(st, SessionFile(p, sid))
         THEN unlink_and_record(st, SessionFile(p, sid)) ELSE st

\* One iteration of "for project in projects_dir.iterdir()".
clean_project(st, sid, p) ==
    IF st.error \/ ~is_dir(st, ProjectDir(p)) THEN st
    ELSE LET a == IF exists(st, SessionFile(p, sid))
                  THEN unlink_and_record(st, SessionFile(p, sid)) ELSE st
             b == IF ~a.error /\ is_dir(a, SessionSub(p, sid))
                  THEN rmtree_and_record(a, SessionSub(p, sid)) ELSE a
         IN  b

RECURSIVE clean_each_project(_, _, _, _)
clean_each_project(st, sid, projects, i) ==
    IF i > Len(projects) THEN st
    ELSE clean_each_project(clean_project(st, sid, projects[i]), sid, projects, i + 1)

\* projects_dir.iterdir(): every name in projects/, directory or not.
iterdir_projects(st) == {p \in Projects : ProjectDir(p) \in st.fs \/ ProjectFile(p) \in st.fs}

\* projects/*/{session_id}.jsonl and projects/*/{session_id}/
clean_projects(st, sid) ==
    IF ~st.error /\ is_dir(st, ProjectsDir)
    THEN clean_each_project(st, sid, listing(iterdir_projects(st)), 1)
    ELSE st

\* clean_session(session_id) run while another process removes the paths of
\* gone, each right after clean_session has found it.
clean_session_racing(f, sid, gone) ==
    clean_projects(
        clean_todos(
            clean_simple([fs |-> f, removed |-> <<>>, error |-> FALSE, vanish |-> gone], sid),
            sid),
        sid)

\* clean_session(session_id) with nothing else touching the directories.
clean_session(f, sid) == clean_session_racing(f, sid, {})

Range(s) == {s[i] : i \in 1..Len(s)}

(***************************************************************************)
(* Program constants, in ds.                                               *)
(***************************************************************************)
CHECK_INTERVAL_DS == 5      \* now - last_check >= 0.5
SELECT_TIMEOUT_DS == 1      \* select.select([master], [], [], 0.1)
DRAIN_TIMEOUT_DS == 2       \* _drain_pty(master, timeout=0.2)
EXIT_SLEEP_DS == 3          \* time.sleep(0.3)
WAIT_TIMEOUT_DS == 20       \* proc.wait(timeout=2)

(***************************************************************************)
(* Bounds of the fetch model.                                              *)
(***************************************************************************)
\* The deadline of the poll loop, in ds after spawn.  The program's value is
\* 150 (deadline = t_start + 15); the model runs the same loop against a
\* shorter deadline that still spans several snapshot ticks and ends between
\* two of them.
DeadlineDs == 7
\* The monotonic clock when fetch_usage_via_pty is entered.
StartClock == 5
\* Chunks (other than plain filler) the child writes in one run.
MaxOutput == 3
\* How far past the deadline the model follows reads that take time.
MaxOverrunDs == 1

(***************************************************************************)
(* What the child writes.  A chunk is one of these pieces of screen text:  *)
(*   "S"  Current session ... 42% used                                    *)
(*   "W"  Current week (all models) ... 17% used                          *)
(*   "X"  Current week (Sonnet only) ... 5% used, then                    *)
(*        Extra usage ... 3% used                                         *)
(*   "R"  a reset line "Resets 13pm": a time of day that is no clock time  *)
(*   "O"  ESC ] 0 ;   the start of an operating-system-command sequence    *)
(*   "B"  BEL         the end of one                                       *)
(*   "."  filler: text with no keyword, digit or escape byte               *)
(***************************************************************************)
Filler == "."
Chunks == {"S", "W", "X", "R", "O", "B"}

\* output += chunk.  Filler changes no match of any pattern below, so the
\* buffer is kept up to filler.
AppendChunk(out, c) == IF c = Filler THEN out ELSE Append(out, c)

RECURSIVE IndexFrom(_, _, _)
\* The least i >= from with text[i] in the set cs, or 0.
IndexFrom(text, cs, from) ==
    IF from > Len(text) THEN 0
    ELSE IF text[from] \in cs THEN from
    ELSE IndexFrom(text, cs, from + 1)

RECURSIVE strip_osc(_, _)
\* re.sub(r"\x1b\][^\x07]*\x07", "", text): an OSC start, everything up to
\* the next BEL and that BEL are deleted; an OSC start that no BEL follows
\* is left in place.
strip_osc(text, i) ==
    IF i > Len(text) THEN <<>>
    ELSE IF text[i] = "O" /\ IndexFrom(text, {"B"}, i + 1) # 0
         THEN strip_osc(text, IndexFrom(text, {"B"}, i + 1) + 1)
         ELSE <<text[i]>> \o strip_osc(text, i + 1)

\* strip_ansi(output.decode(...)).  The chunks hold no CSI sequence and no
\* run of newlines, so of the rules only the OSC rule rewrites them.
strip_ansi(out) == strip_osc(out, 1)

Fields == {"session_percent", "week_percent", "sonnet_percent", "extra_percent"}

\* re.search(r"week", text, re.IGNORECASE): the first chunk with the word.
week_start(text) == IndexFrom(text, {"W", "X"}, 1)
session_text(text) ==
    IF week_start(text) = 0 THEN text ELSE SubSeq(text, 1, week_start(text) - 1)

\* The keys parse_usage_output puts into data, in the order the code does.
session_percent_found(text) == "S" \in Range(session_text(text))
\* The reset pattern matches in the session text, and "13pm" makes hour 25:
\* now.replace(hour=25, ...) raises ValueError out of parse_usage_output.
session_reset_raises(text) == "R" \in Range(session_text(text))
week_percent_found(text) == "W" \in Range(text)
sonnet_percent_found(text) == "X" \in Range(text)
extra_percent_found(text) == "X" \in Range(text)

parsed_keys(text) ==
    {k \in Fields :
        \/ k = "session_percent" /\ session_percent_found(text)
        \/ k = "week_percent" /\ week_percent_found(text)
        \/ k = "sonnet_percent" /\ sonnet_percent_found(text)
        \/ k = "extra_percent" /\ extra_percent_found(text)}

PercentOf(k) ==
    CASE k = "session_percent" -> 42
      [] k = "week_percent" -> 17
      [] k = "sonnet_percent" -> 5
      [] k = "extra_percent" -> 3

\* parse_usage_output(text): [raised, data]; data maps the keys found to
\* their values, and is empty when the call raised.
parse_usage_output(text) ==
    IF session_reset_raises(text)
    THEN [raised |-> TRUE, data |-> <<>>]
    ELSE [raised |-> FALSE, data |-> [k \in parsed_keys(text) |-> PercentOf(k)]]

\* The two completion fields are among the keys of data.
BothCompletionFields(data) == {"session_percent", "week_percent"} \subseteq DOMAIN data

\* A completion test that also waits for the Sonnet field.
completion_signal_needs_sonnet(data) ==
    "session_percent" \in DOMAIN data /\ "week_percent" \in DOMAIN data
        /\ "sonnet_percent" \in DOMAIN data

\* A completion test with "or" for "and".
completion_signal_either(data) ==
    "session_percent" \in DOMAIN data \/ "week_percent" \in DOMAIN data

\* if "session_percent" in data and "week_percent" in data
completion_signal(data) ==
    "session_percent" \in DOMAIN data /\ "week_percent" \in DOMAIN data

\* The same loop without "if key not in seen_fields".
record_last_seen(seen, data, elapsed) ==
    [k \in DOMAIN seen \cup DOMAIN data |->
        IF k \in DOMAIN data THEN elapsed ELSE seen[k]]

\* The same record kept to the keys of the latest data: a key that is no
\* longer extracted loses its entry.
record_seen_now(seen, data, elapsed) ==
    [k \in DOMAIN data |-> IF k \in DOMAIN seen THEN seen[k] ELSE elapsed]

\* for key in data: if key not in seen_fields: seen_fields[key] = elapsed
record_first_seen(seen, data, elapsed) ==
    [k \in DOMAIN seen \cup DOMAIN data |->
        IF k \in DOMAIN seen THEN seen[k] ELSE elapsed]

(***************************************************************************)
(* find_claude and ensure_trusted_workspace.                               *)
(***************************************************************************)
NoCmd == "None"
\* The fixed install locations, in list order.
CandidatePaths == <<"~/.npm-global/bin/claude", "~/.local/bin/claude",
                    "/usr/local/bin/claude", "/usr/bin/claude">>
Candidates == DOMAIN CandidatePaths

\* install = [which_claude, candidates, nvm_claude, which_npx]: whether
\* "claude" is on PATH, which of the candidates is a file, whether some nvm
\* node version holds bin/claude, whether "npx" is on PATH.
Min(S) == CHOOSE x \in S : \A y \in S : x <= y

\* The same search with the install locations looked at before PATH.
find_claude_locations_first(inst) ==
    IF inst.candidates # {} THEN CandidatePaths[Min(inst.candidates)]
    ELSE IF inst.which_claude THEN "claude"
    ELSE IF inst.nvm_claude THEN "nvm claude"
    ELSE IF inst.which_npx THEN "npx claude"
    ELSE NoCmd

find_claude(inst) ==
    IF inst.which_claude THEN "claude"
    ELSE IF inst.candidates # {} THEN CandidatePaths[Min(inst.candidates)]
    ELSE IF inst.nvm_claude THEN "nvm claude"
    ELSE IF inst.which_npx THEN "npx claude"
    ELSE NoCmd

\* ensure_trusted_workspace(): the config after the call, and whether the
\* call wrote it.  (The write's OSError is swallowed: "unwritable" below.)
trusted_after(cfg) == IF cfg = "untrusted" THEN "trusted" ELSE cfg
trust_written(cfg) == cfg = "untrusted"

ConfigStates == {"missing", "invalid", "untrusted", "trusted"}

NothingInstalled ==
    [which_claude |-> FALSE, candidates |-> {}, nvm_claude |-> FALSE, which_npx |-> FALSE]
ClaudeOnPath ==
    [which_claude |-> TRUE, candidates |-> {2}, nvm_claude |-> FALSE, which_npx |-> TRUE]

\* The machines explored, as [install, claude_json, usage_cwd]: one with
\* nothing installed, in every state of the config, and one with claude on
\* PATH and a config that lacks the trust entry.
Machines ==
    {[install |-> NothingInstalled, claude_json |-> c, usage_cwd |-> u] :
        c \in ConfigStates, u \in BOOLEAN}
    \cup {[install |-> ClaudeOnPath, claude_json |-> "untrusted", usage_cwd |-> FALSE]}

\* What is under ~/.claude before a fetch: nothing, or artifacts of an
\* earlier session "s2" and a file of no session.
FetchInitFs ==
    { {},
      {DebugFile("s2"), SessionFile("pA", "s2"), TodoFile(NoSession, "task"),
       TodosDir, ProjectsDir, ProjectDir("pA")} }

\* What the child creates for its session when it starts.
ChildArtifacts(s) ==
    {DebugFile(s), SessionEnvDir(s), TodoFile(s, "agent"), SessionFile("pA", s)}

\* Lines 284-290: cmd_parts is claude_cmd, split at blanks when it holds
\* one ("npx claude"), followed by --session-id, the id and /usage.
spawn_argv(cmd, sid) ==
    (IF cmd = "npx claude" THEN <<"npx", "claude">> ELSE <<cmd>>)
        \o <<"--session-id", sid, "/usage">>

\* The session the child runs: the argument after --session-id.
session_of_argv(argv) ==
    argv[(CHOOSE i \in 1..Len(argv) : argv[i] = "--session-id") + 1]

\* uuid.uuid4(): an id no existing artifact carries.
FreshIds(f) == {s \in SessionIds : \A path \in f : Owner(path) # s}

EmptyMap == <<>>

\* The runs of clean_history followed: two processes of this tool; the
\* throwaway session of a run carries the run's name.
Runs == {"run1", "run2"}
NoRun == "none"

\* No run of clean_history is followed.
InitHistIdle ==
    /\ hist_exists = FALSE
    /\ hist_file = <<>>
    /\ hist_file0 = <<>>
    /\ hist_lock = NoRun
    /\ h_pc = [r \in Runs |-> "idle"]
    /\ h_pos = [r \in Runs |-> 0]
    /\ h_lines = [r \in Runs |-> <<>>]
    /\ h_removed = [r \in Runs |-> -1]

NoNow == [month |-> 0, day |-> 0, hour |-> 0, minute |-> 0, second |-> 0]
NoOut == [raised |-> FALSE, data |-> <<>>, resets |-> <<>>]

\* No call of parse_usage_output is followed.
InitParseIdle ==
    /\ p_pc = "idle"
    /\ p_text = <<>>
    /\ p_now = NoNow
    /\ p_out = NoOut

\* No call of a function on its own is followed.
InitCallIdle ==
    /\ c_pc = "idle"
    /\ c_fn = "none"
    /\ c_args = <<>>
    /\ c_ret = <<>>

\* No spawn is followed process by process.
InitGroupIdle ==
    /\ g_pc = "idle"
    /\ g_alive = {}
    /\ g_pgid = <<>>
    /\ g_sigs = {}

NoCache == [kind |-> "absent"]
NoData == {"no data"}
NoOutput == [keys |-> {}, last_updated |-> -1]

\* main is not running and has not run.
InitMainIdle ==
    /\ m_pc = "off"
    /\ m_argv = [force |-> FALSE, raw |-> FALSE]
    /\ m_now = 0
    /\ m_cache = NoCache
    /\ m_start = [cache |-> NoCache, now |-> 0]
    /\ m_data = NoData
    /\ m_log = <<>>
    /\ m_stdout = NoOutput
    /\ m_runs = 0

InitClean ==
    /\ cs_calls = 0
    /\ cs_sid = NoId
    /\ cs_prev_sid = NoId
    /\ cs_before = {}
    /\ cs_removed = <<>>
    /\ cs_prev_removed = FALSE
    /\ cs_error = FALSE

InitFetch ==
    /\ pc = "start"
    /\ claude_cmd = NoCmd
    /\ master = "none"
    /\ slave = "none"
    /\ session_id = NoId
    /\ proc = "none"
    /\ clock = StartClock
    /\ t_start = 0
    /\ last_check = 0
    /\ output = <<>>
    /\ seen_fields = EmptyMap
    /\ done = FALSE
    /\ eof = FALSE
    /\ total_elapsed = -1
    /\ result = NoResult
    /\ raw_text = NoText
    /\ loop_exit = "none"
    /\ tick_both = FALSE
    /\ td_log = <<>>
    /\ drain_calls = 0
    /\ trust_writes = 0

Init ==
    /\ \E m \in Machines :
          /\ install = m.install
          /\ claude_json = m.claude_json
          /\ usage_cwd = m.usage_cwd
    /\ fs \in FetchInitFs
    /\ install = ClaudeOnPath => fs # {}
    /\ InitFetch
    /\ InitClean
    /\ InitHistIdle
    /\ InitParseIdle
    /\ InitCallIdle
    /\ InitGroupIdle
    /\ InitMainIdle

(***************************************************************************)
(* fetch_usage_via_pty, up to the poll loop.                               *)
(***************************************************************************)
\* ensure_trusted_workspace() called before the executable is looked for.
FindClaudeFails_TrustFirst ==
    /\ UNCHANGED <<otherVars, eof>>
    /\ pc = "start"
    /\ find_claude(install) = NoCmd
    /\ usage_cwd' = TRUE
    /\ claude_json' = trusted_after(claude_json)
    /\ trust_writes' = trust_writes + (IF trust_written(claude_json) THEN 1 ELSE 0)
    /\ pc' = "returned"
    /\ result' = [kind |-> "error", error |-> "Claude not found"]
    /\ raw_text' = <<>>
    /\ UNCHANGED <<install, fs, cleanVars, claude_cmd, master, slave, session_id, proc,
                   clock, t_start, last_check, output, seen_fields, done, total_elapsed,
                   loop_exit, tick_both, td_log, drain_calls>>

\* claude_cmd = find_claude(); if not claude_cmd: return {"error": ...}, ""
FindClaudeFails ==
    /\ UNCHANGED <<otherVars, eof>>
    /\ pc = "start"
    /\ find_claude(install) = NoCmd
    /\ pc' = "returned"
    /\ result' = [kind |-> "error", error |-> "Claude not found"]
    /\ raw_text' = <<>>
    /\ UNCHANGED <<envVars, fs, cleanVars, claude_cmd, master, slave, session_id, proc,
                   clock, t_start, last_check, output, seen_fields, done, total_elapsed,
                   loop_exit, tick_both, td_log, drain_calls, trust_writes>>

\* ensure_trusted_workspace(); pty.openpty(); uuid4(); Popen(...);
\* os.close(slave); the loop's variables are initialised.
\* The child starts and creates artifacts for its session.
Spawn ==
    /\ UNCHANGED <<otherVars, eof>>
    /\ pc = "start"
    /\ find_claude(install) # NoCmd
    /\ claude_cmd' = find_claude(install)
    /\ usage_cwd' = TRUE
    /\ claude_json' = trusted_after(claude_json)
    /\ trust_writes' = trust_writes + (IF trust_written(claude_json) THEN 1 ELSE 0)
    /\ master' = "open"
    /\ slave' = "closed"
    /\ \E sid \in FreshIds(fs) :
          /\ session_id' = sid
          /\ LET made == ChildArtifacts(session_of_argv(spawn_argv(find_claude(install), sid)))
             IN  fs' = fs \cup made \cup ParentsOf(made)
    /\ proc' = "running"
    /\ t_start' = clock
    /\ pc' = "poll"
    /\ UNCHANGED <<install, cleanVars, clock, last_check, output, seen_fields, done,
                   total_elapsed, result, raw_text, loop_exit, tick_both, td_log,
                   drain_calls>>

\* Popen raises (the executable vanished, the working directory cannot be
\* entered): the exception leaves fetch_usage_via_pty from line 293.
SpawnRaises ==
    /\ UNCHANGED <<otherVars, eof>>
    /\ pc = "start"
    /\ find_claude(install) # NoCmd
    /\ claude_cmd' = find_claude(install)
    /\ usage_cwd' = TRUE
    /\ claude_json' = trusted_after(claude_json)
    /\ trust_writes' = trust_writes + (IF trust_written(claude_json) THEN 1 ELSE 0)
    /\ master' = "open"
    /\ slave' = "open"
    /\ \E sid \in FreshIds(fs) : session_id' = sid
    /\ t_start' = clock
    /\ pc' = "raised"
    /\ UNCHANGED <<install, fs, cleanVars, proc, clock, last_check, output, seen_fields,
                   done, total_elapsed, result, raw_text, loop_exit, tick_both, td_log,
                   drain_calls>>

(***************************************************************************)
(* The poll loop: while time.monotonic() < deadline.                       *)
(***************************************************************************)
deadline == t_start + DeadlineDs

\* The snapshot at the end of an iteration that has buffer out at time now:
\* what the iteration leaves in pc, last_check, seen_fields, done, and the
\* history it makes.
snapshot_tick(out, now) ==
    LET parsed == parse_usage_output(strip_ansi(out))
        early == ~parsed.raised /\ completion_signal(parsed.data)
    IN  IF now - last_check >= CHECK_INTERVAL_DS
        THEN [pc |-> IF parsed.raised THEN "raised" ELSE IF early THEN "drain" ELSE "poll",
              last_check |-> now,
              seen |-> IF parsed.raised THEN seen_fields
                       ELSE record_first_seen(seen_fields, parsed.data, now - t_start),
              done |-> IF early THEN TRUE ELSE done,
              loop_exit |-> IF parsed.raised THEN "exception" ELSE "none",
              tick_both |-> tick_both \/ (~parsed.raised /\ BothCompletionFields(parsed.data)),
              drain_calls |-> drain_calls + (IF early THEN 1 ELSE 0)]
        ELSE [pc |-> "poll", last_check |-> last_check, seen |-> seen_fields,
              done |-> done, loop_exit |-> "none", tick_both |-> tick_both,
              drain_calls |-> drain_calls]

\* The part of an iteration after the read (lines 320-332).
PollRest(out, now) ==
    LET t == snapshot_tick(out, now)
    IN  /\ output' = out
        /\ clock' = now
        /\ pc' = t.pc
        /\ last_check' = t.last_check
        /\ seen_fields' = t.seen
        /\ done' = t.done
        /\ loop_exit' = t.loop_exit
        /\ tick_both' = t.tick_both
        /\ drain_calls' = t.drain_calls

InLoop == pc = "poll" /\ clock < deadline

\* select times out: nothing to read for 0.1 s.  (At end of file the
\* master stays readable, and every read of it returns b"" again.)
PollTimeout ==
    /\ UNCHANGED <<otherVars, eof>>
    /\ InLoop
    /\ ~eof
    /\ PollRest(output, clock + SELECT_TIMEOUT_DS)
    /\ UNCHANGED <<envVars, fs, cleanVars, claude_cmd, master, slave, session_id, proc,
                   t_start, total_elapsed, result, raw_text, td_log, trust_writes>>

\* select reports the master readable after e ds and os.read returns a chunk.
PollRead ==
    /\ UNCHANGED <<otherVars, eof>>
    /\ InLoop
    /\ ~eof
    /\ \E c \in Chunks \cup {Filler}, e \in 0..SELECT_TIMEOUT_DS :
          /\ c # Filler => Len(output) < MaxOutput
          /\ PollRest(AppendChunk(output, c), clock + e)
    /\ UNCHANGED <<envVars, fs, cleanVars, claude_cmd, master, slave, session_id, proc,
                   t_start, total_elapsed, result, raw_text, td_log, trust_writes>>

\* os.read returns b"" (end of file): nothing is appended and the iteration
\* goes on to its snapshot.
PollReadEmpty ==
    /\ UNCHANGED otherVars
    /\ InLoop
    /\ eof' = TRUE
    /\ \E e \in 0..SELECT_TIMEOUT_DS : PollRest(output, clock + e)
    /\ UNCHANGED <<envVars, fs, cleanVars, claude_cmd, master, slave, session_id, proc,
                   t_start, total_elapsed, result, raw_text, td_log, trust_writes>>

\* os.read raises OSError: break.
PollReadError ==
    /\ UNCHANGED <<otherVars, eof>>
    /\ InLoop
    /\ ~eof
    /\ pc' = "teardown"
    /\ loop_exit' = "read_error"
    /\ UNCHANGED <<envVars, fs, cleanVars, claude_cmd, master, slave, session_id, proc,
                   clock, t_start, last_check, output, seen_fields, done, total_elapsed,
                   result, raw_text, tick_both, td_log, drain_calls, trust_writes>>

\* The loop condition fails: the deadline has passed.
PollDeadline ==
    /\ UNCHANGED <<otherVars, eof>>
    /\ pc = "poll"
    /\ ~(clock < deadline)
    /\ pc' = "teardown"
    /\ loop_exit' = "deadline"
    /\ UNCHANGED <<envVars, fs, cleanVars, claude_cmd, master, slave, session_id, proc,
                   clock, t_start, last_check, output, seen_fields, done, total_elapsed,
                   result, raw_text, tick_both, td_log, drain_calls, trust_writes>>

(***************************************************************************)
(* output += _drain_pty(master), after the tick that set done.  What the   *)
(* drain has read is appended to output as it is read.                     *)
(***************************************************************************)
\* select reports the master readable and os.read returns a chunk: the
\* drain's loop goes round again.
DrainRead ==
    /\ UNCHANGED <<otherVars, eof>>
    /\ pc = "drain"
    /\ ~eof
    /\ \E c \in Chunks \cup {Filler}, e \in 0..(DRAIN_TIMEOUT_DS - 1) :
          /\ c # Filler => Len(output) < MaxOutput
          /\ clock + e <= deadline + MaxOverrunDs
          /\ output' = AppendChunk(output, c)
          /\ clock' = clock + e
    /\ UNCHANGED <<envVars, fs, cleanVars, pc, claude_cmd, master, slave, session_id,
                   proc, t_start, last_check, seen_fields, done, total_elapsed, result,
                   raw_text, loop_exit, tick_both, td_log, drain_calls, trust_writes>>

\* select times out after 0.2 s: the drain returns, then break.
DrainTimeout ==
    /\ UNCHANGED <<otherVars, eof>>
    /\ pc = "drain"
    /\ ~eof
    /\ clock' = clock + DRAIN_TIMEOUT_DS
    /\ pc' = "teardown"
    /\ loop_exit' = "early"
    /\ UNCHANGED <<envVars, fs, cleanVars, claude_cmd, master, slave, session_id, proc,
                   t_start, last_check, output, seen_fields, done, total_elapsed, result,
                   raw_text, tick_both, td_log, drain_calls, trust_writes>>

\* os.read returns b"" or raises OSError: the drain returns, then break.
DrainEnd ==
    /\ UNCHANGED <<otherVars, eof>>
    /\ pc = "drain"
    /\ pc' = "teardown"
    /\ loop_exit' = "early"
    /\ UNCHANGED <<envVars, fs, cleanVars, claude_cmd, master, slave, session_id, proc,
                   clock, t_start, last_check, output, seen_fields, done, total_elapsed,
                   result, raw_text, tick_both, td_log, drain_calls, trust_writes>>

(***************************************************************************)
(* Teardown (lines 334-347).  Nothing else runs between its steps, so it   *)
(* is one action; td_log keeps the order of the steps.                     *)
(***************************************************************************)
\* How long after SIGTERM a child that is still running takes to exit, when
\* it exits within the wait.
EXIT_DELAY_DS == 2

\* The same step with a sleep as long as the wait's timeout on top.
exit_command_long_sleep(wrote) ==
    IF wrote THEN [log |-> <<"write_exit", "sleep">>, took |-> EXIT_SLEEP_DS + WAIT_TIMEOUT_DS + 1]
    ELSE [log |-> <<"write_exit_failed">>, took |-> 0]

\* try: os.write(master, b"/exit\n"); time.sleep(0.3)  except OSError: pass
\* The steps logged and the time taken; the write fails when wrote is FALSE.
exit_command(wrote) ==
    IF wrote THEN [log |-> <<"write_exit", "sleep">>, took |-> EXIT_SLEEP_DS]
    ELSE [log |-> <<"write_exit_failed">>, took |-> 0]

\* The force-kill sent right after terminate, before the wait.
terminate_kill_then_wait(exited, d) ==
    IF exited THEN [log |-> <<"terminate", "kill", "wait">>, took |-> d]
    ELSE [log |-> <<"terminate", "kill", "wait_expired">>, took |-> WAIT_TIMEOUT_DS]

\* proc.terminate(); try: proc.wait(timeout=2) except TimeoutExpired:
\* proc.kill().  The child exits after d ds, or not within the timeout.
terminate_and_wait(exited, d) ==
    IF exited THEN [log |-> <<"terminate", "wait">>, took |-> d]
    ELSE [log |-> <<"terminate", "wait_expired", "kill">>, took |-> WAIT_TIMEOUT_DS]

\* os.close(master)
close_master == [log |-> <<"close_master">>, took |-> 0]

\* clean_session(session_id), line 363, is reached when the final parse at
\* line 349 has returned.
after_teardown_log ==
    IF parse_usage_output(strip_ansi(output)).raised THEN <<>> ELSE <<"clean_session">>

\* Lines 334-347.  The write fails when the master's other end is gone, and
\* the child with it: the wait then returns at once.  A child that took the
\* write exits EXIT_DELAY_DS after the signal or outlasts the wait.
Teardown ==
    /\ \E wrote \in BOOLEAN, exited \in BOOLEAN :
          /\ ~wrote => exited
          /\ LET w == exit_command(wrote)
                 t == terminate_and_wait(exited, IF wrote THEN EXIT_DELAY_DS ELSE 0)
                 c == close_master
             IN  /\ td_log' = td_log \o w.log \o t.log \o c.log \o after_teardown_log
                 /\ clock' = clock + w.took + t.took + c.took
    /\ proc' = "terminated"
    /\ master' = "closed"
    /\ total_elapsed' = clock' - t_start

\* The flag recomputed from the final parse instead of the loop's decision.
completed_early_from_final_parse(d, data) == BothCompletionFields(data)

\* "completed_early": done
completed_early_value(d, data) == d

\* The call clean_session(sid): its effect on fs and what it returns.
CallCleanSession(sid) ==
    LET r == clean_session(fs, sid)
    IN  /\ fs' = r.fs
        /\ cs_calls' = cs_calls + 1
        /\ cs_prev_sid' = cs_sid
        /\ cs_sid' = sid
        /\ cs_before' = fs
        /\ cs_removed' = r.removed
        /\ cs_prev_removed' = (cs_removed # <<>>)
        /\ cs_error' = r.error

\* What another process may remove while fetch_usage_via_pty cleans up its
\* session: nothing, or the session's environment directory (the child and
\* its descendants are still exiting when clean_session runs).
Races(sid) == {{}, {SessionEnvDir(sid)}}

\* The same call with another process removing the paths of gone.
CallCleanSessionRacing(sid, gone) ==
    LET r == clean_session_racing(fs, sid, gone)
    IN  /\ fs' = r.fs
        /\ cs_calls' = cs_calls + 1
        /\ cs_prev_sid' = cs_sid
        /\ cs_sid' = sid
        /\ cs_before' = fs
        /\ cs_removed' = r.removed
        /\ cs_prev_removed' = (cs_removed # <<>>)
        /\ cs_error' = r.error

\* Another session's id in its place.
cleanup_target_other(sid) == CHOOSE s \in SessionIds : s # sid

\* The session id fetch_usage_via_pty hands to clean_session.
cleanup_target(sid) == sid

\* data["_meta"] = {...}; "_cleaned_session" is set when cleaned is not empty.
final_result(data, seen, elapsed, sid, cleaned) ==
    [kind |-> "data",
     fields |-> data,
     meta |-> [fetch_duration_s |-> elapsed,
               field_timings |-> seen,
               completed_early |-> completed_early_value(done, data),
               session_id |-> sid],
     cleaned_session |-> cleaned]

\* Lines 348-367: text = strip_ansi(...); data = parse_usage_output(text);
\* the fields not seen at a tick get total_elapsed; data["_meta"] = {...};
\* cleaned = clean_session(session_id); return data, text.
\* An exception of parse_usage_output leaves the function before
\* clean_session is called; one of clean_session leaves it after.
FinalParse ==
    LET text == strip_ansi(output)
        parsed == parse_usage_output(text)
        seen == record_first_seen(seen_fields, parsed.data, total_elapsed')
    IN  IF parsed.raised
        THEN /\ pc' = "raised"
             /\ UNCHANGED <<seen_fields, result, raw_text, fs, cleanVars>>
        ELSE /\ seen_fields' = seen
             /\ \E gone \in Races(session_id) :
                    CallCleanSessionRacing(cleanup_target(session_id), gone)
             /\ IF cs_error'
                THEN /\ pc' = "raised"
                     /\ UNCHANGED <<result, raw_text>>
                ELSE /\ pc' = "returned"
                     /\ raw_text' = text
                     /\ result' = final_result(parsed.data, seen, total_elapsed',
                                               session_id, cs_removed')

\* Everything after the poll loop, lines 334-367: the teardown, then the
\* final parse, the cleanup of the session and the return.
Finish ==
    /\ UNCHANGED <<otherVars, eof>>
    /\ pc = "teardown"
    /\ Teardown
    /\ FinalParse
    /\ UNCHANGED <<envVars, claude_cmd, slave, session_id, t_start, last_check, output,
                   done, loop_exit, tick_both, drain_calls, trust_writes>>

Next ==
    \/ FindClaudeFails
    \/ Spawn
    \/ SpawnRaises
    \/ PollTimeout
    \/ PollRead
    \/ PollReadEmpty
    \/ PollReadError
    \/ PollDeadline
    \/ DrainRead
    \/ DrainTimeout
    \/ DrainEnd
    \/ Finish

Spec == Init /\ [][Next]_vars

(***************************************************************************)
(* clean_session on its own: any artifacts of the session "s1", a few of   *)
(* other sessions and of no session, parents present or missing; then      *)
(* calls of clean_session with any session id.                             *)
(***************************************************************************)
\* Artifacts of another session and of no session, some at every location.
OtherArtifacts ==
    {DebugFile("s2"), SessionEnvDir("s2"), FileHistoryDir(NoSession),
     TodoFile("s2", "agent"), TodoFile(NoSession, "task"),
     SessionFile("pA", "s2"), SessionSub("pB", "s2"), SessionFile("pB", NoSession)}

RECURSIVE SubsetsUpTo(_, _)
\* The subsets of S with at most n elements.
SubsetsUpTo(S, n) ==
    IF n = 0 \/ S = {} THEN {{}}
    ELSE LET x == CHOOSE y \in S : TRUE
         IN  SubsetsUpTo(S \ {x}, n) \cup {T \cup {x} : T \in SubsetsUpTo(S \ {x}, n - 1)}

\* Parent directories present although nothing needs them, and a plain file
\* in projects/.
ExtraParentSets ==
    { {},
      {TodosDir, ProjectsDir},
      {TodosDir, ProjectsDir, ProjectDir("pA"), ProjectFile("pB")} }

CleanInitFs ==
    {f \in {own \cup oth \cup ParentsOf(own \cup oth) \cup extra :
              own \in SUBSET ArtifactsOf("s1"),
              oth \in SubsetsUpTo(OtherArtifacts, MaxOther),
              extra \in ExtraParentSets} : WellFormedFs(f)}

InitCleanSpec ==
    /\ install = NothingInstalled
    /\ claude_json = "missing"
    /\ usage_cwd = FALSE
    /\ fs \in CleanInitFs
    /\ InitFetch
    /\ InitClean
    /\ InitHistIdle
    /\ InitParseIdle
    /\ InitCallIdle
    /\ InitGroupIdle
    /\ InitMainIdle

CleanSessionCall ==
    /\ UNCHANGED otherVars
    /\ cs_calls < MaxCleanCalls
    /\ ~cs_error
    /\ \E sid \in SessionIds : CallCleanSession(sid)
    /\ UNCHANGED <<envVars, fetchVars>>

NextClean == CleanSessionCall

SpecClean == InitCleanSpec /\ [][NextClean]_vars

(***************************************************************************)
(* parse_usage_output on text and dates.  The text is a sequence of tokens, *)
(* each the piece of screen text shown here; a token is                     *)
(* <<kind, mangled, a, b, c, d>>:                                           *)
(*   <<"session", 0, ..>>          Current session                          *)
(*   <<"week_all", 0, ..>>         Current week (all models)                *)
(*   <<"week_all", 1, ..>>         rrent week (all models)                  *)
(*   <<"week_sonnet", 0, ..>>      Current week (Sonnet only)               *)
(*   <<"extra", 0, ..>>            Extra usage                              *)
(*   <<"pct", 0, n, ..>>           n% used                                  *)
(*   <<"reset_time", 0, h, m, pm>> Resets h:mm{am,pm}     (pm = 1 for pm)   *)
(*   <<"reset_date", 0, mo, d, h, pm>>  Resets <Mon> d at h{am,pm}          *)
(*   <<"reset_date", 1, mo, d, h, pm>>  Rese s <Mon> d at h{am,pm}          *)
(* Between tokens stands text that no pattern of the parser needs.  The     *)
(* chunks "S", "W", "X", "R" of the fetch model are such texts:             *)
(* parse_usage_output above is this parser on them.                         *)
(***************************************************************************)
\* Tokens of one text.
MaxTokens == 3

Token(kind, mangled, a, b, c, d) == <<kind, mangled, a, b, c, d>>

TextTokens ==
    {Token("session", 0, 0, 0, 0, 0),
     Token("week_all", 0, 0, 0, 0, 0), Token("week_all", 1, 0, 0, 0, 0),
     Token("week_sonnet", 0, 0, 0, 0, 0),
     Token("extra", 0, 0, 0, 0, 0),
     Token("pct", 0, 17, 0, 0, 0), Token("pct", 0, 250, 0, 0, 0),
     Token("reset_time", 0, 3, 15, 1, 0), Token("reset_time", 0, 12, 0, 0, 0),
     Token("reset_time", 0, 13, 0, 1, 0),
     Token("reset_date", 0, 3, 3, 9, 0), Token("reset_date", 1, 3, 3, 9, 0)}

\* datetime.now() at the call: a morning and an afternoon in the middle of a
\* month, an afternoon on the last day of a month, and the very minute of a
\* reset date, on the second and after it.
Nows ==
    {[month |-> 1, day |-> 15, hour |-> 10, minute |-> 0, second |-> 30],
     [month |-> 1, day |-> 15, hour |-> 16, minute |-> 0, second |-> 30],
     [month |-> 1, day |-> 31, hour |-> 16, minute |-> 0, second |-> 30],
     [month |-> 3, day |-> 3, hour |-> 9, minute |-> 0, second |-> 0],
     [month |-> 3, day |-> 3, hour |-> 9, minute |-> 0, second |-> 30]}

\* Days of a month of the current year (not a leap year).
DaysIn(month) ==
    CASE month \in {4, 6, 9, 11} -> 30
      [] month = 2 -> 28
      [] OTHER -> 31

\* The least index from..Len(text) whose token is of one of the kinds, and
\* spelled in full when the pattern needs that, or 0: re.search from there.
FirstToken(text, from, kinds, in_full) ==
    LET hits == {i \in from..Len(text) :
                    text[i][1] \in kinds /\ (in_full => text[i][2] = 0)}
    IN  IF hits = {} THEN 0 ELSE Min(hits)

\* _parse_time(time_part, ampm): 24h (hour, minute).
parse_time(hour, minute, pm) ==
    IF pm = 1 /\ hour # 12 THEN <<hour + 12, minute>>
    ELSE IF pm = 0 /\ hour = 12 THEN <<0, minute>>
    ELSE <<hour, minute>>

\* Minutes since the start of the year, to compare datetimes of one year.
Stamp(month, day, hour, minute) == ((month * 32 + day) * 24 + hour) * 60 + minute

NoReset == [found |-> FALSE, raised |-> FALSE, year |-> 0, month |-> 0, day |-> 0,
            hour |-> 0, minute |-> 0]
RaisedReset == [NoReset EXCEPT !.raised = TRUE]
ResetAt(year, month, day, hour, minute) ==
    [found |-> TRUE, raised |-> FALSE, year |-> year, month |-> month, day |-> day,
     hour |-> hour, minute |-> minute]

\* year_str of _parse_reset_date: <<>> is None, <<y>> the year y, counted
\* from the current year (0 this year, 1 the next).
NoYear == <<>>

\* The same function without "if test_target < now: year += 1".
parse_reset_date_no_roll(month, day, year_str, hour, minute, now) ==
    IF day < 1 \/ day > DaysIn(month) \/ hour > 23 \/ minute > 59 THEN NoReset
    ELSE ResetAt(IF year_str = NoYear THEN 0 ELSE year_str[1], month, day, hour, minute)

\* _parse_reset_date(date_str, year_str, hour, minute): None when strptime or
\* datetime() raises; without a year, next year (year = 1) when the date is
\* before now; a year given is used as it is.
parse_reset_date(month, day, year_str, hour, minute, now) ==
    IF day < 1 \/ day > DaysIn(month) \/ hour > 23 \/ minute > 59 THEN NoReset
    ELSE LET target == Stamp(month, day, hour, minute)
             current == Stamp(now.month, now.day, now.hour, now.minute)
             before == target < current \/ (target = current /\ now.second > 0)
         IN  IF year_str = NoYear
             THEN ResetAt(IF before THEN 1 ELSE 0, month, day, hour, minute)
             ELSE ResetAt(year_str[1], month, day, hour, minute)

\* re.search(r"week", text, re.IGNORECASE)
re_week_start(text) ==
    FirstToken(text, 1, {"week_all", "week_sonnet"}, FALSE)

\* text[: _week_start.start()] if _week_start else text
re_session_text(text) ==
    IF re_week_start(text) = 0 THEN text ELSE SubSeq(text, 1, re_week_start(text) - 1)

\* The first "n% used" after position a of text, or -1; a = 0: no anchor.
percent_after(text, a) ==
    LET j == IF a = 0 THEN 0 ELSE FirstToken(text, a + 1, {"pct"}, FALSE)
    IN  IF j = 0 THEN -1 ELSE text[j][3]

\* re.search(r"session.+?(\d+)%\s*used", _session_text, DOTALL | IGNORECASE)
re_session_percent(text) ==
    percent_after(re_session_text(text),
                  FirstToken(re_session_text(text), 1, {"session"}, FALSE))

\* The time of day a reset token ends with: (hour, minute, pm).
time_of(t) == IF t[1] = "reset_time" THEN <<t[3], t[4], t[5]>> ELSE <<t[5], 0, t[6]>>

\* Lines 186-197: r"Rese[\w\s]*?(\d+(?::\d+)?)\s*([ap]?\s*m)" in the session
\* text matches the first reset line there, dated or not, and takes its time
\* of day; now.replace(hour=...) raises for no clock time, and
\* target.replace(day=target.day + 1) on the last day of a month.
re_session_reset(text, now) ==
    LET st == re_session_text(text)
        i == FirstToken(st, 1, {"reset_time", "reset_date"}, FALSE)
        hm == parse_time(time_of(st[i])[1], time_of(st[i])[2], time_of(st[i])[3])
    IN  IF i = 0 THEN NoReset
        ELSE IF hm[1] > 23 \/ hm[2] > 59 THEN RaisedReset
        ELSE IF hm[1] * 60 + hm[2] <= now.hour * 60 + now.minute
             THEN IF now.day + 1 > DaysIn(now.month) THEN RaisedReset
                  ELSE ResetAt(0, now.month, now.day + 1, hm[1], hm[2])
             ELSE ResetAt(0, now.month, now.day, hm[1], hm[2])

\* r"Current\s+week\s*\(all\s*models\)": the anchor spelled in full.
re_week_all_anchor(text) ==
    FirstToken(text, 1, {"week_all"}, TRUE)
\* r"Current\s+week\s*\(Sonnet\s*only\)"
re_week_sonnet_anchor(text) ==
    FirstToken(text, 1, {"week_sonnet"}, TRUE)
\* r"Extra\s+usage"
re_extra_anchor(text) ==
    FirstToken(text, 1, {"extra"}, TRUE)

\* <anchor>.*?Resets?\s+([A-Za-z]+\s+\d+)...(\d+(?::\d+)?)\s*(am|pm) over the
\* whole text: the first dated reset line spelled in full after the anchor.
date_reset_after(text, a, now) ==
    LET j == IF a = 0 THEN 0
             ELSE FirstToken(text, a + 1, {"reset_date"}, TRUE)
        hm == parse_time(text[j][5], 0, text[j][6])
    IN  IF j = 0 THEN NoReset
        ELSE parse_reset_date(text[j][3], text[j][4], NoYear, hm[1], hm[2], now)

ResetKeys == {"session_reset", "week_reset", "sonnet_reset", "extra_reset"}

\* The percent the parser stores under key k, or -1 (lines 182-183, 200-203,
\* 215-218, 230-231).  Every pattern but the session's runs over the whole
\* text.
percent_for(k, text) ==
    CASE k = "session_percent" -> re_session_percent(text)
      [] k = "week_percent" -> percent_after(text, re_week_all_anchor(text))
      [] k = "sonnet_percent" -> percent_after(text, re_week_sonnet_anchor(text))
      [] k = "extra_percent" -> percent_after(text, re_extra_anchor(text))

\* The reset the parser stores under key k (lines 186-197, 205-212, 220-227,
\* 237-246).
reset_for(k, text, now) ==
    CASE k = "session_reset" -> re_session_reset(text, now)
      [] k = "week_reset" -> date_reset_after(text, re_week_all_anchor(text), now)
      [] k = "sonnet_reset" -> date_reset_after(text, re_week_sonnet_anchor(text), now)
      [] k = "extra_reset" -> date_reset_after(text, re_extra_anchor(text), now)

\* parse_usage_output(text) called at now: [raised, data, resets]; data holds
\* the percent keys and resets the reset keys of the returned dict.
parse_usage_text(text, now) ==
    IF re_session_reset(text, now).raised
    THEN [raised |-> TRUE, data |-> <<>>, resets |-> <<>>]
    ELSE [raised |-> FALSE,
          data |-> [k \in {f \in Fields : percent_for(f, text) # -1} |->
                       percent_for(k, text)],
          resets |-> [k \in {f \in ResetKeys : reset_for(f, text, now).found} |->
                         reset_for(k, text, now)]]

RECURSIVE TokenSeqs(_)
\* The texts of at most n tokens.
TokenSeqs(n) ==
    IF n = 0 THEN {<<>>}
    ELSE TokenSeqs(n - 1) \cup {Append(q, x) : q \in TokenSeqs(n - 1), x \in TextTokens}

InitParseSpec ==
    /\ install = NothingInstalled
    /\ claude_json = "missing"
    /\ usage_cwd = FALSE
    /\ fs = {}
    /\ InitFetch
    /\ InitClean
    /\ InitHistIdle
    /\ InitCallIdle
    /\ InitGroupIdle
    /\ InitMainIdle
    /\ p_pc = "ready"
    /\ p_text \in TokenSeqs(MaxTokens)
    /\ p_now \in Nows
    /\ p_out = NoOut

\* data = parse_usage_output(text)
ParseCall ==
    /\ p_pc = "ready"
    /\ p_out' = parse_usage_text(p_text, p_now)
    /\ p_pc' = "parsed"
    /\ UNCHANGED <<p_text, p_now, envVars, fs, fetchVars, cleanVars, histVars, callVars, groupVars,
                   mainVars>>

NextParse == ParseCall

SpecParse == InitParseSpec /\ [][NextParse]_vars

(***************************************************************************)
(* Single calls of the helpers: the reading of a time of day (lines        *)
(* 190-192 with _parse_time), _parse_reset_date and find_claude.           *)
(***************************************************************************)
\* str.lower() on the letters a meridiem token can hold.
lower(ch) ==
    CASE ch = "A" -> "a"
      [] ch = "P" -> "p"
      [] ch = "M" -> "m"
      [] OTHER -> ch

\* The same without .lower().
meridiem_case_sensitive(raw) ==
    LET ampm_raw == SelectSeq(raw, LAMBDA ch : ch # " ")
    IN  IF Len(ampm_raw) > 0 /\ ampm_raw[1] = "p" THEN "pm" ELSE "am"

\* ampm_raw = re.sub(r"\s", "", m.group(2)).lower()
\* ampm = "pm" if ampm_raw.startswith("p") else "am"
meridiem(raw) ==
    LET ampm_raw == [i \in DOMAIN SelectSeq(raw, LAMBDA ch : ch # " ") |->
                        lower(SelectSeq(raw, LAMBDA ch : ch # " ")[i])]
    IN  IF Len(ampm_raw) > 0 /\ ampm_raw[1] = "p" THEN "pm" ELSE "am"

\* Lines 126-129: "h:mm" is split at the colon, "h" has minute 0.  A time
\* part is <<h>> or <<h, mm>>.
split_time(time_part) ==
    IF Len(time_part) = 2 THEN <<time_part[1], time_part[2]>> ELSE <<time_part[1], 0>>

\* hour, minute = _parse_time(m.group(1), ampm) with ampm from m.group(2).
session_time(time_part, raw) ==
    parse_time(split_time(time_part)[1], split_time(time_part)[2],
               IF meridiem(raw) = "pm" THEN 1 ELSE 0)

\* What the pattern ([ap]?\s*m), ignoring case, can capture.
MeridiemTokens ==
    {<<"p", "m">>, <<"a", "m">>, <<"P", "M">>, <<"A", "M">>, <<"p", " ", "m">>,
     <<"a", " ", "m">>, <<"m">>}

\* What (\d+(?::\d+)?) can capture from a clock time.
TimeParts ==
    {<<h>> : h \in 1..12} \cup {<<h, mi>> : h \in 1..12, mi \in {0, 5, 59}}

\* Arguments of _parse_reset_date and the moment of the call.
DateArgs ==
    [month : {1, 2, 3, 12}, day : {1, 3, 15, 30}, year_str : {NoYear, <<0>>, <<1>>, <<2>>},
     hour : {0, 9, 16}, minute : {0, 30}, now : Nows]

\* Every machine find_claude can run on.
Installs ==
    [which_claude : BOOLEAN, candidates : SUBSET Candidates, nvm_claude : BOOLEAN,
     which_npx : BOOLEAN]

InitCallSpec ==
    /\ install = NothingInstalled
    /\ claude_json = "missing"
    /\ usage_cwd = FALSE
    /\ fs = {}
    /\ InitFetch
    /\ InitClean
    /\ InitHistIdle
    /\ InitParseIdle
    /\ InitGroupIdle
    /\ InitMainIdle
    /\ c_pc = "ready"
    /\ \/ /\ c_fn = "session_time"
          /\ c_args \in [time_part : TimeParts, raw : MeridiemTokens]
       \/ /\ c_fn = "_parse_reset_date"
          /\ c_args \in DateArgs
       \/ /\ c_fn = "find_claude"
          /\ c_args \in Installs
    /\ c_ret = <<>>

notCallVars == <<envVars, fs, fetchVars, cleanVars, histVars, parseVars, groupVars, mainVars>>

\* hour, minute = _parse_time(m.group(1), ampm)
ParseTimeCall ==
    /\ c_pc = "ready"
    /\ c_fn = "session_time"
    /\ c_ret' = session_time(c_args.time_part, c_args.raw)
    /\ c_pc' = "done"
    /\ UNCHANGED <<c_fn, c_args, notCallVars>>

\* iso = _parse_reset_date(date_str, year_str, hour, minute)
ParseResetDateCall ==
    /\ c_pc = "ready"
    /\ c_fn = "_parse_reset_date"
    /\ c_ret' = parse_reset_date(c_args.month, c_args.day, c_args.year_str, c_args.hour,
                                 c_args.minute, c_args.now)
    /\ c_pc' = "done"
    /\ UNCHANGED <<c_fn, c_args, notCallVars>>

\* claude_cmd = find_claude()
FindClaudeCall ==
    /\ c_pc = "ready"
    /\ c_fn = "find_claude"
    /\ c_ret' = find_claude(c_args)
    /\ c_pc' = "done"
    /\ UNCHANGED <<c_fn, c_args, notCallVars>>

NextCall ==
    \/ ParseTimeCall
    \/ ParseResetDateCall
    \/ FindClaudeCall

SpecCalls == InitCallSpec /\ [][NextCall]_vars

(***************************************************************************)
(* strip_ansi on characters.  A text is a sequence of characters; ESC, BEL *)
(* and NL stand for \x1b, \x07 and \n.  strip_ansi above is this function  *)
(* on the chunks of the fetch model.                                       *)
(***************************************************************************)
ESC == "ESC"
BEL == "BEL"
NL  == "NL"
Digits  == {"7"}
Letters == {"H", "C", "A", "m"}
\* The characters of the texts explored: the bytes the rules name, a digit,
\* the letters the rules tell apart, and "~" for any other printable one.
StripChars == {ESC, BEL, NL, "[", "]", ";", "~"} \cup Digits \cup Letters
\* Characters of one text.
MaxChars == 4

\* text[j], or "" past either end.
At(text, j) == IF j \in 1..Len(text) THEN text[j] ELSE ""

RECURSIVE Span(_, _, _)
\* The length of the longest run of characters of cs that starts at j: what
\* a greedy cs* takes there.
Span(text, j, cs) ==
    IF At(text, j) \in cs THEN 1 + Span(text, j + 1, cs) ELSE 0

RECURSIVE Blanks(_)
Blanks(n) == IF n = 0 THEN <<>> ELSE <<" ">> \o Blanks(n - 1)

\* int() of a run of n digits "7".
RECURSIVE IntOfSevens(_)
IntOfSevens(n) == IF n = 0 THEN 0 ELSE IntOfSevens(n - 1) * 10 + 7

NoMatch == [len |-> 0, repl |-> <<>>]

\* The match of one rule of strip_ansi that starts at position i of text:
\* its length (0: none) and what re.sub puts in its place.
rule_match(rule, text, i) ==
    LET d == Span(text, i + 2, Digits)
        csi == At(text, i) = ESC /\ At(text, i + 1) = "["
    IN  CASE rule = "cursor_position" ->       \* \x1b\[\d+;\d+H
                 LET e == Span(text, i + 3 + d, Digits)
                 IN  IF csi /\ d >= 1 /\ At(text, i + 2 + d) = ";" /\ e >= 1
                            /\ At(text, i + 3 + d + e) = "H"
                     THEN [len |-> 4 + d + e, repl |-> <<NL>>] ELSE NoMatch
          [] rule = "cursor_home" ->           \* \x1b\[\d*H
                 IF csi /\ At(text, i + 2 + d) = "H"
                 THEN [len |-> 3 + d, repl |-> <<NL>>] ELSE NoMatch
          [] rule = "cursor_forward" ->        \* \x1b\[(\d+)C
                 IF csi /\ d >= 1 /\ At(text, i + 2 + d) = "C"
                 THEN [len |-> 3 + d, repl |-> Blanks(IntOfSevens(d))] ELSE NoMatch
          [] rule = "cursor_move" ->           \* \x1b\[\d*[ABD]
                 IF csi /\ At(text, i + 2 + d) = "A"
                 THEN [len |-> 3 + d, repl |-> <<NL>>] ELSE NoMatch
          [] rule = "csi" ->                   \* \x1b\[[0-9;]*[a-zA-Z]
                 LET q == Span(text, i + 2, Digits \cup {";"})
                 IN  IF csi /\ At(text, i + 2 + q) \in Letters
                     THEN [len |-> 3 + q, repl |-> <<>>] ELSE NoMatch
          [] rule = "osc" ->                   \* \x1b\][^\x07]*\x07
                 LET q == Span(text, i + 2, (StripChars \cup {" "}) \ {BEL})
                 IN  IF At(text, i) = ESC /\ At(text, i + 1) = "]" /\ At(text, i + 2 + q) = BEL
                     THEN [len |-> 3 + q, repl |-> <<>>] ELSE NoMatch
          [] rule = "other_escape" ->          \* \x1b[^[\]].?
                 IF At(text, i) = ESC /\ At(text, i + 1) \notin {"", "[", "]"}
                 THEN [len |-> IF At(text, i + 2) \in {"", NL} THEN 2 ELSE 3, repl |-> <<>>]
                 ELSE NoMatch
          [] rule = "blank_lines" ->           \* \n{3,}
                 IF Span(text, i, {NL}) >= 3
                 THEN [len |-> Span(text, i, {NL}), repl |-> <<NL, NL>>] ELSE NoMatch

RECURSIVE re_sub(_, _, _)
\* re.sub(<rule>, <replacement>, text) from position i on: matches are taken
\* from left to right and do not overlap.
re_sub(rule, text, i) ==
    IF i > Len(text) THEN <<>>
    ELSE LET m == rule_match(rule, text, i)
         IN  IF m.len > 0 THEN m.repl \o re_sub(rule, text, i + m.len)
             ELSE <<text[i]>> \o re_sub(rule, text, i + 1)

\* The rules in the order strip_ansi applies them.
StripRules == <<"cursor_position", "cursor_home", "cursor_forward", "cursor_move",
                "csi", "osc", "other_escape", "blank_lines">>

RECURSIVE apply_rules(_, _)
\* text after the first n rules.
apply_rules(text, n) ==
    IF n = 0 THEN text ELSE re_sub(StripRules[n], apply_rules(text, n - 1), 1)

\* strip_ansi(text)
strip_ansi_text(text) == apply_rules(text, Len(StripRules))

RECURSIVE CharSeqs(_)
\* The texts of at most n characters.
CharSeqs(n) ==
    IF n = 0 THEN {<<>>}
    ELSE CharSeqs(n - 1) \cup {Append(q, x) : q \in CharSeqs(n - 1), x \in StripChars}

InitStripSpec ==
    /\ install = NothingInstalled
    /\ claude_json = "missing"
    /\ usage_cwd = FALSE
    /\ fs = {}
    /\ InitFetch
    /\ InitClean
    /\ InitHistIdle
    /\ InitParseIdle
    /\ InitGroupIdle
    /\ InitMainIdle
    /\ c_pc = "ready"
    /\ c_fn = "strip_ansi"
    /\ c_args \in CharSeqs(MaxChars)
    /\ c_ret = <<>>

\* text = strip_ansi(output.decode("utf-8", errors="ignore"))
StripCall ==
    /\ c_pc = "ready"
    /\ c_fn = "strip_ansi"
    /\ c_ret' = strip_ansi_text(c_args)
    /\ c_pc' = "done"
    /\ UNCHANGED <<c_fn, c_args, notCallVars>>

NextStrip == StripCall

SpecStrip == InitStripSpec /\ [][NextStrip]_vars

(***************************************************************************)
(* The processes of one fetch: the child that Popen starts (lines 293-301) *)
(* and the processes the child starts in turn (with "npx claude" the child *)
(* is the package runner and claude itself is one of these), through the   *)
(* teardown of lines 334-345.                                              *)
(***************************************************************************)
Child == "child"
\* Processes the child may start.
Workers == {"worker1", "worker2"}

\* preexec_fn=os.setsid: the child leads a new session and process group.
setsid(p) == p

\* proc.terminate() and proc.kill(): Popen.send_signal is os.kill(self.pid,
\* sig), and does nothing once the child has been reaped: the processes a
\* signal of the teardown reaches.
signalled(alive) == alive \cap {Child}

InitGroupSpec ==
    /\ install = ClaudeOnPath
    /\ claude_json = "trusted"
    /\ usage_cwd = TRUE
    /\ fs = {}
    /\ InitFetch
    /\ InitClean
    /\ InitHistIdle
    /\ InitParseIdle
    /\ InitCallIdle
    /\ InitMainIdle
    /\ g_pc = "start"
    /\ g_alive = {}
    /\ g_pgid = <<>>
    /\ g_sigs = {}

notGroupVars == <<envVars, fs, fetchVars, cleanVars, histVars, parseVars, callVars, mainVars>>

\* proc = subprocess.Popen(cmd, ..., preexec_fn=os.setsid, ...)
GSpawn ==
    /\ g_pc = "start"
    /\ g_pc' = "loop"
    /\ g_alive' = {Child}
    /\ g_pgid' = (Child :> setsid(Child))
    /\ UNCHANGED <<g_sigs, notGroupVars>>

\* The child, or a process it started, starts a process; the new process is
\* in its parent's process group.
GFork ==
    /\ g_pc \in {"loop", "exit_sent", "terminated"}
    /\ \E parent \in g_alive, w \in Workers \ DOMAIN g_pgid :
          /\ g_alive' = g_alive \cup {w}
          /\ g_pgid' = g_pgid @@ (w :> g_pgid[parent])
    /\ UNCHANGED <<g_pc, g_sigs, notGroupVars>>

\* A process ends by itself: its work is done, it took /exit, or it met the
\* end of its input.
GExit ==
    /\ g_pc \in {"loop", "exit_sent", "terminated"}
    /\ \E p \in g_alive : g_alive' = g_alive \ {p}
    /\ UNCHANGED <<g_pc, g_pgid, g_sigs, notGroupVars>>

\* The poll loop has ended; os.write(master, b"/exit\n"); time.sleep(0.3),
\* or the OSError of the write.
GWriteExit ==
    /\ g_pc = "loop"
    /\ g_pc' = "exit_sent"
    /\ UNCHANGED <<g_alive, g_pgid, g_sigs, notGroupVars>>

\* proc.terminate()
GTerminate ==
    /\ g_pc = "exit_sent"
    /\ g_pc' = "terminated"
    /\ g_sigs' = g_sigs \cup {<<p, "SIGTERM">> : p \in signalled(g_alive)}
    /\ UNCHANGED <<g_alive, g_pgid, notGroupVars>>

\* A process that was sent SIGTERM ends.
GDieOnTerm ==
    /\ g_pc = "terminated"
    /\ \E p \in g_alive :
          /\ <<p, "SIGTERM">> \in g_sigs
          /\ g_alive' = g_alive \ {p}
    /\ UNCHANGED <<g_pc, g_pgid, g_sigs, notGroupVars>>

\* proc.wait(timeout=2) returns: the child has ended.
GWaitReturns ==
    /\ g_pc = "terminated"
    /\ Child \notin g_alive
    /\ g_pc' = "waited"
    /\ UNCHANGED <<g_alive, g_pgid, g_sigs, notGroupVars>>

\* proc.wait(timeout=2) raises TimeoutExpired; proc.kill(): what SIGKILL
\* reaches ends at once.
GWaitExpires ==
    /\ g_pc = "terminated"
    /\ Child \in g_alive
    /\ g_pc' = "waited"
    /\ g_sigs' = g_sigs \cup {<<p, "SIGKILL">> : p \in signalled(g_alive)}
    /\ g_alive' = g_alive \ signalled(g_alive)
    /\ UNCHANGED <<g_pgid, notGroupVars>>

\* os.close(master), and the rest of fetch_usage_via_pty.
GCloseMaster ==
    /\ g_pc = "waited"
    /\ g_pc' = "left"
    /\ UNCHANGED <<g_alive, g_pgid, g_sigs, notGroupVars>>

NextGroup ==
    \/ GSpawn
    \/ GFork
    \/ GExit
    \/ GWriteExit
    \/ GTerminate
    \/ GDieOnTerm
    \/ GWaitReturns
    \/ GWaitExpires
    \/ GCloseMaster

SpecGroup == InitGroupSpec /\ [][NextGroup]_vars

(***************************************************************************)
(* main and the cache file (lines 370-385, 477-514).  main is run up to    *)
(* MaxRuns times, one run after the other; the cache file stays from one   *)
(* run to the next.  m_now is time.time() in seconds.  A dict is the set   *)
(* of its keys; the cache file also holds the last_updated it was written  *)
(* with.                                                                   *)
(***************************************************************************)
CACHE_MAX_AGE == 600
MaxRuns == 3

\* The seconds between two runs, and the seconds a fetch takes.
Waits == {0, CACHE_MAX_AGE, CACHE_MAX_AGE + 1}
FetchSeconds == {2, 17}

\* The dicts fetch_usage_via_pty returns: {"error": ...} when find_claude
\* finds nothing, else the parsed fields with "_meta" and, when
\* clean_session removed something, "_cleaned_session".
FetchData ==
    { {"error"},
      {"_meta"},
      {"_meta", "_cleaned_session"},
      {"session_percent", "_meta", "_cleaned_session"},
      {"session_percent", "week_percent", "_meta"} }

\* k.startswith("_"), on the keys of the model.
startswith_underscore(k) == k \in {"_meta", "_cleaned_session", "_cleaned"}

\* any(k for k in data if not k.startswith("_"))
any_usage_key(data) == \E k \in data : ~startswith_underscore(k)

None == [kind |-> "None"]

\* The same read with a cache of exactly CACHE_MAX_AGE seconds taken as stale.
read_cache_strict(cache, now) ==
    IF cache.kind = "absent" THEN None
    ELSE IF now - cache.mtime >= CACHE_MAX_AGE THEN None
    ELSE IF cache.kind = "torn" THEN [kind |-> "raised"]
    ELSE [kind |-> "dict", keys |-> cache.keys, last_updated |-> cache.last_updated]

\* read_cache(): None without the file or with a file older than
\* CACHE_MAX_AGE by its mtime, else json.load of the file, which raises on
\* a file that does not hold a whole JSON document.
read_cache(cache, now) ==
    IF cache.kind = "absent" THEN None
    ELSE IF now - cache.mtime > CACHE_MAX_AGE THEN None
    ELSE IF cache.kind = "torn" THEN [kind |-> "raised"]
    ELSE [kind |-> "dict", keys |-> cache.keys, last_updated |-> cache.last_updated]

\* "if cached:": a dict with at least one key.
truthy(cached) == cached.kind = "dict" /\ cached.keys # {}

\* data["last_updated"] = datetime.now(...); write_cache(data)
write_cache(data, now) ==
    [kind |-> "json", keys |-> data \cup {"last_updated"}, last_updated |-> now,
     mtime |-> now]

\* open(CACHE_FILE, "w") has truncated the file and json.dump has not
\* finished.
torn_cache(now) == [kind |-> "torn", mtime |-> now]

InitMainSpec ==
    /\ install = ClaudeOnPath
    /\ claude_json = "trusted"
    /\ usage_cwd = TRUE
    /\ fs = {}
    /\ InitFetch
    /\ InitClean
    /\ InitHistIdle
    /\ InitParseIdle
    /\ InitCallIdle
    /\ InitGroupIdle
    /\ m_pc = "idle"
    /\ m_argv = [force |-> FALSE, raw |-> FALSE]
    /\ m_now = 0
    /\ m_cache = NoCache
    /\ m_start = [cache |-> NoCache, now |-> 0]
    /\ m_data = NoData
    /\ m_log = <<>>
    /\ m_stdout = NoOutput
    /\ m_runs = 0

notMainVars == <<envVars, fs, fetchVars, cleanVars, histVars, parseVars, callVars, groupVars>>

\* main is started: raw_mode = "--raw" in sys.argv; force = "--force" in
\* sys.argv; "if not force:".
MStart ==
    /\ m_pc = "idle"
    /\ m_runs < MaxRuns
    /\ \E force \in BOOLEAN, raw \in BOOLEAN, wait \in Waits :
          /\ m_argv' = [force |-> force, raw |-> raw]
          /\ m_now' = m_now + wait
          /\ m_start' = [cache |-> m_cache, now |-> m_now + wait]
          /\ m_pc' = IF force THEN "fetch" ELSE "read_cache"
    /\ m_runs' = m_runs + 1
    /\ m_data' = NoData
    /\ m_log' = <<>>
    /\ m_stdout' = NoOutput
    /\ UNCHANGED <<m_cache, notMainVars>>

\* cached = read_cache(); if cached: print(json.dumps(cached, indent=2));
\* return
MReadCache ==
    /\ m_pc = "read_cache"
    /\ LET cached == read_cache(m_cache, m_now)
       IN  IF cached.kind = "raised"
           THEN /\ m_pc' = "idle"
                /\ m_log' = Append(m_log, "exception")
                /\ UNCHANGED m_stdout
           ELSE IF truthy(cached)
           THEN /\ m_pc' = "idle"
                /\ m_log' = Append(m_log, "print")
                /\ m_stdout' = [keys |-> cached.keys, last_updated |-> cached.last_updated]
           ELSE /\ m_pc' = "fetch"
                /\ UNCHANGED <<m_log, m_stdout>>
    /\ UNCHANGED <<m_argv, m_now, m_cache, m_start, m_data, m_runs, notMainVars>>

\* data, raw = fetch_usage_via_pty(), which starts the child unless
\* find_claude finds nothing; the raw text goes to stderr in raw mode.
MFetch ==
    /\ m_pc = "fetch"
    /\ \E data \in FetchData, took \in FetchSeconds :
          /\ m_data' = data
          /\ m_now' = m_now + took
    /\ m_log' = m_log \o <<"fetch">> \o (IF m_argv.raw THEN <<"stderr raw">> ELSE <<>>)
    /\ m_pc' = "check"
    /\ UNCHANGED <<m_argv, m_cache, m_start, m_stdout, m_runs, notMainVars>>

\* fetch_usage_via_pty raises (C16, C30): main is left by the exception.
MFetchRaises ==
    /\ m_pc = "fetch"
    /\ \E took \in FetchSeconds : m_now' = m_now + took
    /\ m_log' = m_log \o <<"fetch", "exception">>
    /\ m_pc' = "idle"
    /\ UNCHANGED <<m_argv, m_cache, m_start, m_data, m_stdout, m_runs, notMainVars>>

\* if "error" in data: ... sys.exit(1); if not any(...): ... sys.exit(1)
MCheck ==
    /\ m_pc = "check"
    /\ IF "error" \in m_data \/ ~any_usage_key(m_data)
       THEN /\ m_pc' = "idle"
            /\ m_log' = Append(m_log, "exit 1")
       ELSE /\ m_pc' = "write_cache"
            /\ UNCHANGED m_log
    /\ UNCHANGED <<m_argv, m_now, m_cache, m_start, m_data, m_stdout, m_runs, notMainVars>>

\* data["last_updated"] = ...; write_cache(data)
MWriteCache ==
    /\ m_pc = "write_cache"
    /\ m_cache' = write_cache(m_data, m_now)
    /\ m_data' = m_data \cup {"last_updated"}
    /\ m_log' = Append(m_log, "write_cache")
    /\ m_pc' = "clean_history"
    /\ UNCHANGED <<m_argv, m_now, m_start, m_stdout, m_runs, notMainVars>>

\* The process is killed inside write_cache, between open(..., "w") and
\* the end of json.dump.
MKilledInWrite ==
    /\ m_pc = "write_cache"
    /\ m_cache' = torn_cache(m_now)
    /\ m_log' = Append(m_log, "killed")
    /\ m_pc' = "idle"
    /\ UNCHANGED <<m_argv, m_now, m_start, m_data, m_stdout, m_runs, notMainVars>>

\* history_removed = clean_history(); if history_removed: data["_cleaned"]
\* = ...; print(json.dumps(data, indent=2))
MCleanAndPrint ==
    /\ m_pc = "clean_history"
    /\ \E history_removed \in {0, 1} :
          LET data == IF history_removed # 0 THEN m_data \cup {"_cleaned"} ELSE m_data
          IN  /\ m_data' = data
              /\ m_stdout' = [keys |-> data, last_updated |-> m_now]
    /\ m_log' = m_log \o <<"clean_history", "print">>
    /\ m_pc' = "idle"
    /\ UNCHANGED <<m_argv, m_now, m_cache, m_start, m_runs, notMainVars>>

NextMain ==
    \/ MStart
    \/ MReadCache
    \/ MFetch
    \/ MFetchRaises
    \/ MCheck
    \/ MWriteCache
    \/ MKilledInWrite
    \/ MCleanAndPrint

SpecMain == InitMainSpec /\ [][NextMain]_vars

(***************************************************************************)
(* clean_history.  A line of history.jsonl is <<display, session>>: the     *)
(* text of its "display" key and the session that wrote it.  Two runs of   *)
(* this tool clean the same file; each step below is one system call of    *)
(* one run.  File offsets and lengths are counted in lines.                *)
(***************************************************************************)
\* Lines of the history file before the runs.
MaxHistLines == 3

HistLines ==
    {<<"/usage", "run1">>, <<"/usage", "run2">>, <<"/usage", "user">>,
     <<"about /usage", "user">>, <<"hello", "user">>}

RECURSIVE SeqsUpTo(_, _)
\* The sequences over S of length at most n.
SeqsUpTo(S, n) ==
    IF n = 0 THEN {<<>>}
    ELSE LET shorter == SeqsUpTo(S, n - 1)
         IN  shorter \cup {Append(q, x) : q \in shorter, x \in S}

\* '"display":"/usage"' in l
is_usage_line(l) == l[1] = "/usage"

\* A looser test: "/usage" in l.
mentions_usage(l) == l[1] \in {"/usage", "about /usage"}

\* The looser test in place of the filter's.
kept_lines_loose(lines) == SelectSeq(lines, LAMBDA l : ~mentions_usage(l))

\* kept = [l for l in lines if '"display":"/usage"' not in l]
kept_lines(lines) == SelectSeq(lines, LAMBDA l : ~is_usage_line(l))

\* removed = len(lines) - len(kept)
removed_count(lines) == Len(lines) - Len(kept_lines(lines))

\* os.write(fd, data) at offset pos of a file: the data replaces what was at
\* pos .. pos + len - 1 and extends the file when it reaches past its end.
write_at(file, pos, data) ==
    SubSeq(file, 1, pos) \o data \o SubSeq(file, pos + Len(data) + 1, Len(file))

\* A lock request that never waits.
lock_never_waits(r) == TRUE

\* fcntl.flock(fd, fcntl.LOCK_EX) returns once no other open file holds the
\* lock.
lock_free(r) == hist_lock = NoRun

InitHistSpec ==
    /\ install = NothingInstalled
    /\ claude_json = "missing"
    /\ usage_cwd = FALSE
    /\ fs = {}
    /\ InitFetch
    /\ InitClean
    /\ InitParseIdle
    /\ InitCallIdle
    /\ InitGroupIdle
    /\ InitMainIdle
    /\ hist_exists \in BOOLEAN
    /\ hist_file \in (IF hist_exists THEN SeqsUpTo(HistLines, MaxHistLines) ELSE {<<>>})
    /\ hist_file0 = hist_file
    /\ hist_lock = NoRun
    /\ h_pc = [r \in Runs |-> "start"]
    /\ h_pos = [r \in Runs |-> 0]
    /\ h_lines = [r \in Runs |-> <<>>]
    /\ h_removed = [r \in Runs |-> -1]

notHistVars == <<envVars, fs, fetchVars, cleanVars, parseVars, callVars, groupVars, mainVars>>

\* if not HISTORY_FILE.exists(): return 0
HExists(r) ==
    /\ h_pc[r] = "start"
    /\ IF hist_exists
       THEN /\ h_pc' = [h_pc EXCEPT ![r] = "open"]
            /\ UNCHANGED h_removed
       ELSE /\ h_pc' = [h_pc EXCEPT ![r] = "returned"]
            /\ h_removed' = [h_removed EXCEPT ![r] = 0]
    /\ UNCHANGED <<hist_exists, hist_file, hist_file0, hist_lock, h_pos, h_lines, notHistVars>>

\* fd = os.open(str(HISTORY_FILE), os.O_RDWR)
HOpen(r) ==
    /\ h_pc[r] = "open"
    /\ h_pos' = [h_pos EXCEPT ![r] = 0]
    /\ h_pc' = [h_pc EXCEPT ![r] = "flock"]
    /\ UNCHANGED <<hist_exists, hist_file, hist_file0, hist_lock, h_lines, h_removed,
                   notHistVars>>

\* fcntl.flock(fd, fcntl.LOCK_EX)
HFlock(r) ==
    /\ h_pc[r] = "flock"
    /\ lock_free(r)
    /\ hist_lock' = r
    /\ h_pc' = [h_pc EXCEPT ![r] = "read"]
    /\ UNCHANGED <<hist_exists, hist_file, hist_file0, h_pos, h_lines, h_removed, notHistVars>>

\* with os.fdopen(os.dup(fd), "r") as f: lines = f.readlines(); then the
\* filter and "if removed:".  The duplicate shares the offset of fd.
HRead(r) ==
    /\ h_pc[r] = "read"
    /\ LET lines == SubSeq(hist_file, h_pos[r] + 1, Len(hist_file))
       IN  /\ h_lines' = [h_lines EXCEPT ![r] = lines]
           /\ h_pc' = [h_pc EXCEPT ![r] = IF removed_count(lines) # 0 THEN "lseek" ELSE "unlock"]
    /\ h_pos' = [h_pos EXCEPT ![r] = Len(hist_file)]
    /\ UNCHANGED <<hist_exists, hist_file, hist_file0, hist_lock, h_removed, notHistVars>>

\* os.lseek(fd, 0, os.SEEK_SET)
HSeek(r) ==
    /\ h_pc[r] = "lseek"
    /\ h_pos' = [h_pos EXCEPT ![r] = 0]
    /\ h_pc' = [h_pc EXCEPT ![r] = "ftruncate"]
    /\ UNCHANGED <<hist_exists, hist_file, hist_file0, hist_lock, h_lines, h_removed,
                   notHistVars>>

\* os.ftruncate(fd, 0)
HTruncate(r) ==
    /\ h_pc[r] = "ftruncate"
    /\ hist_file' = <<>>
    /\ h_pc' = [h_pc EXCEPT ![r] = "write"]
    /\ UNCHANGED <<hist_exists, hist_file0, hist_lock, h_pos, h_lines, h_removed, notHistVars>>

\* os.write(fd, "".join(kept).encode())
HWrite(r) ==
    /\ h_pc[r] = "write"
    /\ h_pos[r] <= Len(hist_file)
    /\ hist_file' = write_at(hist_file, h_pos[r], kept_lines(h_lines[r]))
    /\ h_pos' = [h_pos EXCEPT ![r] = h_pos[r] + Len(kept_lines(h_lines[r]))]
    /\ h_pc' = [h_pc EXCEPT ![r] = "unlock"]
    /\ UNCHANGED <<hist_exists, hist_file0, hist_lock, h_lines, h_removed, notHistVars>>

\* finally: fcntl.flock(fd, fcntl.LOCK_UN)
HUnlock(r) ==
    /\ h_pc[r] = "unlock"
    /\ hist_lock' = IF hist_lock = r THEN NoRun ELSE hist_lock
    /\ h_pc' = [h_pc EXCEPT ![r] = "close"]
    /\ UNCHANGED <<hist_exists, hist_file, hist_file0, h_pos, h_lines, h_removed, notHistVars>>

\* os.close(fd); return removed
HClose(r) ==
    /\ h_pc[r] = "close"
    /\ h_removed' = [h_removed EXCEPT ![r] = removed_count(h_lines[r])]
    /\ h_pc' = [h_pc EXCEPT ![r] = "returned"]
    /\ UNCHANGED <<hist_exists, hist_file, hist_file0, hist_lock, h_pos, h_lines, notHistVars>>

NextHist ==
    \/ \E r \in Runs : HExists(r)
    \/ \E r \in Runs : HOpen(r)
    \/ \E r \in Runs : HFlock(r)
    \/ \E r \in Runs : HRead(r)
    \/ \E r \in Runs : HSeek(r)
    \/ \E r \in Runs : HTruncate(r)
    \/ \E r \in Runs : HWrite(r)
    \/ \E r \in Runs : HUnlock(r)
    \/ \E r \in Runs : HClose(r)

SpecHistory == InitHistSpec /\ [][NextHist]_vars

(***************************************************************************)
(* ccreport.py: load_all_records over the lines of the session logs, in    *)
(* the order discover_jsonl_files and parse_jsonl_file meet them.  A line  *)
(* is [type, message_id, request_id, timestamp, project]; an id is a       *)
(* string, as the sequence of its characters, and <<>> is the id that is   *)
(* missing or empty.                                                       *)
(***************************************************************************)
MaxRecords == 2

MessageIds == {<<>>, <<"m">>, <<"m", ":">>}
RequestIds == {<<>>, <<"r">>, <<":", "r">>}
Timestamps == {1, 2}
ProjectNames == {"Foo", "bar"}
\* since=None, until=None; project_filter=None.
NoTime == -1
NoFilter == "None"

LogLines ==
    [type : {"assistant"}, message_id : MessageIds, request_id : RequestIds,
     timestamp : Timestamps, project : ProjectNames]
      \cup {[type |-> "user", message_id |-> <<>>, request_id |-> <<>>,
              timestamp |-> 1, project |-> "bar"]}

LoadArgs ==
    [lines : SeqsUpTo(LogLines, MaxRecords), since : {NoTime, 2}, until : {NoTime, 1},
     project_filter : {NoFilter, "foo"}]

NoKey == <<>>

\* The key made of the message id alone.
dedup_key_message_only(message_id, request_id) ==
    IF message_id # <<>> /\ request_id # <<>> THEN message_id ELSE NoKey

\* if message_id and request_id: dedup_key = f"{message_id}:{request_id}"
\* else: dedup_key = None
dedup_key(message_id, request_id) ==
    IF message_id # <<>> /\ request_id # <<>>
    THEN message_id \o <<":">> \o request_id
    ELSE NoKey

RECURSIVE parse_lines(_, _)
\* parse_jsonl_file, file after file: a record for each line of type
\* "assistant" from line i on; "at" is the place of the line in the logs.
parse_lines(lines, i) ==
    IF i > Len(lines) THEN <<>>
    ELSE IF lines[i].type # "assistant" THEN parse_lines(lines, i + 1)
    ELSE <<[at |-> i,
            message_id |-> lines[i].message_id,
            timestamp |-> lines[i].timestamp,
            project |-> lines[i].project,
            dedup_key |-> dedup_key(lines[i].message_id, lines[i].request_id)]>>
            \o parse_lines(lines, i + 1)

\* str.lower() on the names of the model.
lower_name(name) == IF name = "Foo" THEN "foo" ELSE name

\* The three "continue" of the filters: since and rec.timestamp < since,
\* until and rec.timestamp > until, project_filter and
\* project_filter.lower() not in rec.project.lower() (no name of the model
\* is part of another).
filtered_out(rec, since, until, project_filter) ==
    \/ since # NoTime /\ rec.timestamp < since
    \/ until # NoTime /\ rec.timestamp > until
    \/ project_filter # NoFilter /\ lower_name(project_filter) # lower_name(rec.project)

RECURSIVE load_loop(_, _, _, _, _, _, _)
\* The body of "for rec in parse_jsonl_file(path)" from record i on.
load_loop(recs, i, seen_keys, all_records, since, until, project_filter) ==
    IF i > Len(recs) THEN all_records
    ELSE LET rec == recs[i]
         IN  IF filtered_out(rec, since, until, project_filter)
             THEN load_loop(recs, i + 1, seen_keys, all_records, since, until, project_filter)
             ELSE IF rec.dedup_key # NoKey /\ rec.dedup_key \in seen_keys
             THEN load_loop(recs, i + 1, seen_keys, all_records, since, until, project_filter)
             ELSE load_loop(recs, i + 1,
                            IF rec.dedup_key # NoKey THEN seen_keys \cup {rec.dedup_key}
                            ELSE seen_keys,
                            Append(all_records, rec), since, until, project_filter)

RECURSIVE insert_by_timestamp(_, _)
\* rec put behind the records of sorted that are not later than it.
insert_by_timestamp(sorted, rec) ==
    IF sorted = <<>> THEN <<rec>>
    ELSE IF sorted[Len(sorted)].timestamp <= rec.timestamp THEN Append(sorted, rec)
    ELSE Append(insert_by_timestamp(SubSeq(sorted, 1, Len(sorted) - 1), rec),
                sorted[Len(sorted)])

RECURSIVE sort_by_timestamp(_, _)
\* all_records.sort(key=lambda r: r.timestamp): a stable sort.
sort_by_timestamp(recs, n) ==
    IF n = 0 THEN <<>>
    ELSE insert_by_timestamp(sort_by_timestamp(recs, n - 1), recs[n])

load_all_records(lines, since, until, project_filter) ==
    LET all_records == load_loop(parse_lines(lines, 1), 1, {}, <<>>, since, until,
                                 project_filter)
    IN  sort_by_timestamp(all_records, Len(all_records))

InitRecordsSpec ==
    /\ install = NothingInstalled
    /\ claude_json = "missing"
    /\ usage_cwd = FALSE
    /\ fs = {}
    /\ InitFetch
    /\ InitClean
    /\ InitHistIdle
    /\ InitParseIdle
    /\ InitGroupIdle
    /\ InitMainIdle
    /\ c_pc = "ready"
    /\ c_fn = "load_all_records"
    /\ c_args \in LoadArgs
    /\ c_ret = <<>>

\* records = load_all_records(since=since, until=until,
\* project_filter=project_filter)
LoadAllRecordsCall ==
    /\ c_pc = "ready"
    /\ c_fn = "load_all_records"
    /\ c_ret' = load_all_records(c_args.lines, c_args.since, c_args.until,
                                 c_args.project_filter)
    /\ c_pc' = "done"
    /\ UNCHANGED <<c_fn, c_args, notCallVars>>

NextRecords == LoadAllRecordsCall

SpecRecords == InitRecordsSpec /\ [][NextRecords]_vars

(***************************************************************************)
(* The claims.                                                             *)
(***************************************************************************)
Left == pc \in {"returned", "raised"}
Spawned == proc # "none"
Returned == pc = "returned" /\ result.kind = "data"

\* C1: once the child has been spawned, whenever control has left
\* fetch_usage_via_pty (by return or by an exception) the child was sent
\* terminate, the master descriptor is closed and clean_session was called
\* with the run's session id.
C1_TeardownOnEveryExit ==
    (Left /\ Spawned) =>
        /\ "terminate" \in Range(td_log)
        /\ master = "closed"
        /\ cs_calls = 1
        /\ cs_sid = session_id

\* C2: only the deadline not having passed keeps the loop running: once the
\* deadline has passed, neither the poll loop nor the final drain goes round
\* again.
C2_OnlyDeadlineKeepsLoopRunning ==
    [][(pc \in {"poll", "drain"} /\ clock >= deadline) => pc' \notin {"poll", "drain"}]_vars

\* C3: a snapshot tick (a step of the poll loop that moves last_check) whose
\* parse has both session_percent and week_percent sets done, starts the one
\* final drain and ends the polling; a tick without both does neither; the
\* Sonnet and extra fields play no part; and once done is set there is no
\* further tick and no further drain call.
C3_FirstTickWithBothIsEarlyDone ==
    [][/\ (pc = "poll" /\ last_check' # last_check /\ pc' # "raised") =>
            LET data == parse_usage_output(strip_ansi(output')).data
                both == "session_percent" \in DOMAIN data /\ "week_percent" \in DOMAIN data
            IN  /\ both => done' /\ pc' = "drain" /\ drain_calls' = drain_calls + 1
                /\ ~both => ~done' /\ pc' = "poll" /\ drain_calls' = drain_calls
       /\ done => /\ last_check' = last_check
                  /\ pc' # "poll"
                  /\ drain_calls' = drain_calls
                  /\ drain_calls = 1
      ]_vars

C3_Witness ==
    /\ pc = "drain"
    /\ done
    /\ drain_calls = 1
    /\ last_check > t_start
    /\ "sonnet_percent" \in DOMAIN seen_fields
    /\ "extra_percent" \in DOMAIN seen_fields

\* C4 as claimed: in every result returned after a spawn, completed_early is
\* true iff the result contains both session_percent and week_percent.
C4_CompletedEarlyIffBothInResult ==
    Returned => (result.meta.completed_early <=> BothCompletionFields(result.fields))

\* C4 as amended: in every result returned after a spawn, completed_early is
\* true iff some snapshot tick of the poll loop extracted both
\* session_percent and week_percent; it then reports a first-seen time,
\* no later than the fetch duration, for both.
C4_CompletedEarlyIffBothAtATick ==
    Returned =>
        /\ result.meta.completed_early <=> tick_both
        /\ result.meta.completed_early =>
              \A k \in {"session_percent", "week_percent"} :
                  /\ k \in DOMAIN result.meta.field_timings
                  /\ result.meta.field_timings[k] <= result.meta.fetch_duration_s

C4_Witness ==
    /\ Returned
    /\ ~result.meta.completed_early
    /\ BothCompletionFields(result.fields)
    /\ loop_exit = "deadline"

\* C5: when the loop ended because the deadline passed, fetch_usage_via_pty
\* returns a normal result (no exception, no error key) with
\* completed_early = false.
C5_TimedOutReturnsDegradedResult ==
    (Left /\ loop_exit = "deadline") =>
        /\ pc = "returned"
        /\ result.kind = "data"
        /\ ~result.meta.completed_early

\* C6: once the run is EARLY_DONE (done is set) or TIMED_OUT (the loop ended
\* on the deadline) it stays so: no step polls again or takes a tick, done
\* never changes, and the result, when it is built, reports exactly done.
C6_CompletionIsIrreversible ==
    [][(done \/ loop_exit = "deadline") =>
          /\ done' = done
          /\ loop_exit = "deadline" => loop_exit' = "deadline"
          /\ pc' # "poll"
          /\ last_check' = last_check
          /\ (pc' = "returned" /\ result'.kind = "data") =>
                 result'.meta.completed_early = done
      ]_vars

C6_Witness ==
    /\ Returned
    /\ loop_exit = "deadline"
    /\ ~result.meta.completed_early
    /\ BothCompletionFields(result.fields)
    /\ "session_percent" \in DOMAIN seen_fields
    /\ seen_fields["week_percent"] = total_elapsed

\* C7: from a start on a machine where find_claude finds nothing, the only
\* step returns the error result with empty raw text and changes nothing
\* else: no descriptor, no child, no write of the trust config, no creation
\* of the working directory, no session id, no clean_session call, and the
\* artifacts as they were.
C7_NoExecutableNoEffect ==
    [][(pc = "start" /\ find_claude(install) = NoCmd) =>
          /\ pc' = "returned"
          /\ result' = [kind |-> "error", error |-> "Claude not found"]
          /\ raw_text' = <<>>
          /\ master' = "none" /\ slave' = "none" /\ proc' = "none"
          /\ session_id' = NoId
          /\ trust_writes' = 0
          /\ claude_json' = claude_json /\ usage_cwd' = usage_cwd
          /\ cs_calls' = 0
          /\ fs' = fs
      ]_vars

C7_Witness ==
    /\ pc = "returned"
    /\ result.kind = "error"
    /\ raw_text = <<>>
    /\ claude_json = "untrusted"
    /\ ~usage_cwd
    /\ fs # {}

\* C8: after a call clean_session(sid), every path that does not contain sid
\* exists exactly when it existed before the call, and every path the call
\* removed or reports contains sid.
C8_OnlySessionPathsTouched ==
    cs_calls > 0 =>
        /\ \A path \in Paths :
              ~PathContains(path, cs_sid) => (path \in fs <=> path \in cs_before)
        /\ \A path \in (cs_before \ fs) \cup Range(cs_removed) : PathContains(path, cs_sid)

C8_Witness ==
    /\ cs_calls = 1
    /\ \E x \in TodoSuffixes : TodoFile(cs_sid, x) \in Range(cs_removed)
    /\ \E s \in SessionIds \ {cs_sid}, x \in TodoSuffixes : TodoFile(s, x) \in fs

\* C9: a call clean_session(sid) returns a list that holds exactly the
\* session's artifacts that existed before the call, each once, and none of
\* them exists afterwards.
C9_CleanupRoundTrip ==
    cs_calls > 0 =>
        /\ ~cs_error
        /\ Range(cs_removed) = {path \in cs_before : PathContains(path, cs_sid)}
        /\ Len(cs_removed) = Cardinality(Range(cs_removed))
        /\ \A path \in Range(cs_removed) : path \notin fs

C9_Witness ==
    /\ cs_calls = 1
    /\ Range(cs_removed) = ArtifactsOf(cs_sid)
    /\ Len(cs_removed) = 3 + Cardinality(TodoSuffixes) + 2 * Cardinality(Projects)

\* C10: clean_session raises on no subset of the session's artifacts, with
\* or without the parent directories, and a second call with the same
\* session id right after a first one removes nothing and returns the empty
\* list.
C10_CleanupIdempotent ==
    /\ ~cs_error
    /\ (cs_calls >= 2 /\ cs_prev_sid = cs_sid) => (cs_removed = <<>> /\ fs = cs_before)

C10_Witness ==
    /\ cs_calls = 2
    /\ cs_prev_sid = cs_sid
    /\ cs_prev_removed
    /\ cs_removed = <<>>
    /\ TodosDir \notin fs
    /\ ProjectsDir \in fs

\* C11: an error met during teardown (the child already gone, the master
\* unwritable, an artifact that disappears between being found and being
\* removed) never makes the fetch fail: once the teardown has run and the
\* final parse has returned, fetch_usage_via_pty returns its result.
C11_TeardownErrorsSwallowed ==
    (Left /\ td_log # <<>> /\ ~parse_usage_output(strip_ansi(output)).raised) =>
        pc = "returned"

\* C12: the teardown steps that happen, happen in one order: the exit
\* command is written, the grace period elapses (after a write that
\* succeeded), terminate is sent, the exit is waited for, the child is
\* killed only when that wait expired, the master is closed; and
\* clean_session comes after all of them.
C12_TeardownOrder ==
    LET process_teardown ==
            {<<"write_exit", "sleep", "terminate", "wait", "close_master">>,
             <<"write_exit", "sleep", "terminate", "wait_expired", "kill", "close_master">>,
             <<"write_exit_failed", "terminate", "wait", "close_master">>}
    IN  /\ \/ td_log = <<>>
           \/ td_log \in process_teardown
           \/ \E o \in process_teardown : td_log = o \o <<"clean_session">>
        /\ cs_calls > 0 =>
              /\ td_log # <<>>
              /\ td_log[Len(td_log)] = "clean_session"
              /\ master = "closed"
              /\ proc = "terminated"

C12_Witness ==
    /\ pc = "returned"
    /\ td_log = <<"write_exit", "sleep", "terminate", "wait_expired", "kill",
                  "close_master", "clean_session">>
    /\ total_elapsed >= EXIT_SLEEP_DS + WAIT_TIMEOUT_DS

\* C15: an entry of field_timings, once set, keeps its value through every
\* later tick and the final parse, and is never removed; the result reports
\* the entries as they were set.
C15_FieldTimingWriteOnce ==
    [][/\ \A k \in DOMAIN seen_fields :
             k \in DOMAIN seen_fields' /\ seen_fields'[k] = seen_fields[k]
       /\ (pc' = "returned" /\ result'.kind = "data") =>
             result'.meta.field_timings = seen_fields'
      ]_vars

C15_Witness ==
    /\ Returned
    /\ loop_exit = "deadline"
    /\ last_check > t_start
    /\ "session_percent" \in DOMAIN result.meta.field_timings
    /\ result.meta.field_timings["session_percent"] = 0
    /\ "week_percent" \in DOMAIN result.meta.field_timings
    /\ result.meta.field_timings["week_percent"] = total_elapsed

AllRunsReturned == \A r \in Runs : h_pc[r] = "returned"
HoldsLock(r) == h_pc[r] \in {"read", "lseek", "ftruncate", "write", "unlock"}

\* C13 as claimed: history cleanup removes only the entries of the runs'
\* throwaway sessions: every line written by the user's own sessions is in
\* the file afterwards, in the original order.
C13_OnlyThrowawayEntriesRemoved ==
    AllRunsReturned =>
        SelectSeq(hist_file, LAMBDA l : l[2] = "user")
            = SelectSeq(hist_file0, LAMBDA l : l[2] = "user")

\* C13 as amended: history cleanup removes the lines whose display is
\* "/usage", whichever session wrote them, and only those: every other line
\* is in the file afterwards, in the original order, and a run returns the
\* number of "/usage" lines among the lines it read.
C13_OnlyUsageEntriesRemoved ==
    /\ AllRunsReturned =>
          hist_file = SelectSeq(hist_file0, LAMBDA l : l[1] # "/usage")
    /\ \A r \in Runs :
          (h_pc[r] = "returned" /\ hist_exists) =>
              h_removed[r] = Len(h_lines[r])
                               - Len(SelectSeq(h_lines[r], LAMBDA l : l[1] # "/usage"))

C13_Witness ==
    /\ AllRunsReturned
    /\ hist_file0 = << <<"hello", "user">>, <<"/usage", "user">>, <<"about /usage", "user">> >>
    /\ hist_file = << <<"hello", "user">>, <<"about /usage", "user">> >>
    /\ \E r \in Runs : h_removed[r] = 1

\* C14: a run holds the exclusive lock from before it reads the file until
\* after it has rewritten it, two runs are never between lock and unlock at
\* the same time, and every line that is no "/usage" entry and was in the
\* file before the runs is in it after both, in the original order.
C14_LockSerialisesRuns ==
    /\ \A r \in Runs : HoldsLock(r) => hist_lock = r
    /\ \A r1, r2 \in Runs : (HoldsLock(r1) /\ HoldsLock(r2)) => r1 = r2
    /\ AllRunsReturned =>
          SelectSeq(hist_file, LAMBDA l : l[1] # "/usage")
              = SelectSeq(hist_file0, LAMBDA l : l[1] # "/usage")

C14_Witness ==
    /\ h_pc["run1"] = "write"
    /\ h_pc["run2"] = "flock"
    /\ hist_lock = "run1"
    /\ hist_file = <<>>
    /\ <<"hello", "user">> \in Range(h_lines["run1"])

Parsed == p_pc = "parsed"
AnchorKinds == {"session", "week_all", "week_sonnet", "extra"}
\* The positions of text inside a section of the given kind: after an anchor
\* of that kind and before the next anchor of any section.
OwnTokens(text, kind) ==
    {j \in 1..Len(text) :
        \E i \in 1..(j - 1) :
            /\ text[i][1] = kind
            /\ \A m \in (i + 1)..j : text[m][1] \notin AnchorKinds}
SectionOf(k) ==
    CASE k \in {"session_percent", "session_reset"} -> "session"
      [] k \in {"week_percent", "week_reset"} -> "week_all"
      [] k \in {"sonnet_percent", "sonnet_reset"} -> "week_sonnet"
      [] k \in {"extra_percent", "extra_reset"} -> "extra"

\* C16: parse_usage_output raises no exception, whatever the text and the
\* current date and time.
C16_ParseNeverRaises ==
    Parsed => ~p_out.raised

\* C17: every percent and every reset that parse_usage_output reports for a
\* section comes from that section's own text, between its anchor and the
\* next section's anchor.
C17_SectionScoping ==
    (Parsed /\ ~p_out.raised) =>
        /\ \A k \in DOMAIN p_out.data :
              \E j \in OwnTokens(p_text, SectionOf(k)) :
                  p_text[j][1] = "pct" /\ p_text[j][3] = p_out.data[k]
        /\ \A k \in DOMAIN p_out.resets :
              \E j \in OwnTokens(p_text, SectionOf(k)) :
                  p_text[j][1] \in {"reset_time", "reset_date"}

\* C18: the weekly section followed by "17% used" and a reset line for
\* March 3 at 9am yields week_percent = 17 and week_reset = the upcoming
\* March 3, 09:00, whether or not "Current" and "Resets" lost letters.
C18_MangledWeekTolerated ==
    \A m1, m2 \in {0, 1} :
        (Parsed /\ p_text = <<Token("week_all", m1, 0, 0, 0, 0), Token("pct", 0, 17, 0, 0, 0),
                              Token("reset_date", m2, 3, 3, 9, 0)>>) =>
            /\ ~p_out.raised
            /\ "week_percent" \in DOMAIN p_out.data
            /\ p_out.data["week_percent"] = 17
            /\ "week_reset" \in DOMAIN p_out.resets
            /\ p_out.resets["week_reset"].month = 3
            /\ p_out.resets["week_reset"].day = 3
            /\ p_out.resets["week_reset"].hour = 9
            /\ p_out.resets["week_reset"].minute = 0

\* C19: every percent parse_usage_output returns is in 0..100.
C19_PercentInRange ==
    (Parsed /\ ~p_out.raised) =>
        \A k \in DOMAIN p_out.data : p_out.data[k] \in 0..100

\* C20: when the session section holds a reset line with a time of day,
\* session_reset is that time today if it is still ahead of now, and that
\* time on the next calendar day if it has elapsed today.
C20_SessionResetTodayOrTomorrow ==
    \A i \in 1..Len(p_text) :
        (/\ Parsed
         /\ p_text[i][1] = "reset_time"
         /\ p_text[i][3] \in 1..12
         /\ \A j \in 1..(i - 1) :
               p_text[j][1] \notin {"reset_time", "reset_date", "week_all", "week_sonnet"}) =>
            LET h == IF p_text[i][5] = 1
                     THEN (IF p_text[i][3] = 12 THEN 12 ELSE p_text[i][3] + 12)
                     ELSE (IF p_text[i][3] = 12 THEN 0 ELSE p_text[i][3])
                mi == p_text[i][4]
                ahead == h * 60 + mi > p_now.hour * 60 + p_now.minute
                last == p_now.day = DaysIn(p_now.month)
                want == IF ahead THEN <<0, p_now.month, p_now.day>>
                        ELSE IF ~last THEN <<0, p_now.month, p_now.day + 1>>
                        ELSE IF p_now.month = 12 THEN <<1, 1, 1>>
                        ELSE <<0, p_now.month + 1, 1>>
            IN  /\ ~p_out.raised
                /\ "session_reset" \in DOMAIN p_out.resets
                /\ LET r == p_out.resets["session_reset"]
                   IN  <<r.year, r.month, r.day, r.hour, r.minute>> = want \o <<h, mi>>

Called(fn) == c_pc = "done" /\ c_fn = fn

\* C21: _parse_reset_date without a year returns the date in the current
\* year when it is not before now and in the next year when it is, so the
\* reset returned is never in the past; a year given is used as it is.
C21_ResetDateInference ==
    (Called("_parse_reset_date") /\ c_ret.found) =>
        LET a == c_args
            target == Stamp(a.month, a.day, a.hour, a.minute)
            current == Stamp(a.now.month, a.now.day, a.now.hour, a.now.minute)
            before == target < current \/ (target = current /\ a.now.second > 0)
        IN  /\ <<c_ret.month, c_ret.day, c_ret.hour, c_ret.minute>>
                    = <<a.month, a.day, a.hour, a.minute>>
            /\ a.year_str = NoYear =>
                  /\ c_ret.year = (IF before THEN 1 ELSE 0)
                  /\ c_ret.year > 0 \/ ~before
            /\ a.year_str # NoYear => c_ret.year = a.year_str[1]

\* A date without a year that already passed this year came back in the
\* next one.
C21_Witness ==
    /\ Called("_parse_reset_date")
    /\ c_args.year_str = NoYear
    /\ c_args.month = 1 /\ c_args.now.month = 3
    /\ c_ret.found /\ c_ret.year = 1

\* C22: a meridiem token whose first letter is p makes the time PM, any
\* other token AM; 12 PM stays 12, 12 AM is 0, other PM hours gain 12; a time
\* without minutes has minute 0.
C22_TimeParsing ==
    Called("session_time") =>
        LET letters == SelectSeq(c_args.raw, LAMBDA ch : ch # " ")
            pm == letters[1] \in {"p", "P"}
            h == c_args.time_part[1]
            mi == IF Len(c_args.time_part) = 2 THEN c_args.time_part[2] ELSE 0
        IN  /\ c_ret[2] = mi
            /\ pm /\ h # 12 => c_ret[1] = h + 12
            /\ pm /\ h = 12 => c_ret[1] = 12
            /\ ~pm /\ h # 12 => c_ret[1] = h
            /\ ~pm /\ h = 12 => c_ret[1] = 0
            /\ (c_args.time_part = <<3, 5>> /\ pm) => c_ret = <<15, 5>>
            /\ (c_args.time_part = <<3, 5>> /\ ~pm) => c_ret = <<3, 5>>

\* "3:05" with "PM" was read as 15:05.
C22_Witness ==
    /\ Called("session_time")
    /\ c_args.time_part = <<3, 5>>
    /\ c_args.raw = <<"P", "M">>
    /\ c_ret = <<15, 5>>

\* C25: find_claude returns the PATH hit when there is one; otherwise the
\* first install location, in list order, that is a file; otherwise the
\* claude of an nvm node version; otherwise "npx claude" when npx is on PATH;
\* and None only when all four find nothing.
C25_FindClaudePriority ==
    Called("find_claude") =>
        LET i == c_args
        IN  /\ i.which_claude => c_ret = "claude"
            /\ (~i.which_claude /\ i.candidates # {}) =>
                  \E n \in i.candidates :
                      /\ c_ret = CandidatePaths[n]
                      /\ \A m \in 1..(n - 1) : m \notin i.candidates
            /\ (~i.which_claude /\ i.candidates = {} /\ i.nvm_claude) => c_ret = "nvm claude"
            /\ (~i.which_claude /\ i.candidates = {} /\ ~i.nvm_claude /\ i.which_npx) =>
                  c_ret = "npx claude"
            /\ c_ret = NoCmd <=>
                  (~i.which_claude /\ i.candidates = {} /\ ~i.nvm_claude /\ ~i.which_npx)

\* With claude not on PATH, the second and fourth install locations present
\* and nvm and npx there too, the second location was returned.
C25_Witness ==
    /\ Called("find_claude")
    /\ c_args = [which_claude |-> FALSE, candidates |-> {2, 4}, nvm_claude |-> TRUE,
                 which_npx |-> TRUE]
    /\ c_ret = CandidatePaths[2]

\* C23: a zero-length read of the master or an I/O error on it, in the poll
\* loop as in the drain, ends the reading: the step that meets it leaves
\* for the teardown.
C23_EndOfStreamStopsReading ==
    [][((~eof /\ eof') \/ PollReadError \/ DrainEnd) => pc' = "teardown"]_vars

C26_OneSessionIdPerFetch ==
    [][/\ (pc = "start" /\ pc' = "poll") =>
            /\ session_of_argv(spawn_argv(claude_cmd', session_id')) = session_id'
            /\ \A a \in (fs' \ fs) \cap Artifacts : Owner(a) = session_id'
       /\ session_id # NoId => session_id' = session_id
       /\ cs_calls' # cs_calls =>
            /\ cs_sid' = session_id
            /\ \A a \in (fs \ fs') : Owner(a) = session_id
       /\ (pc' = "returned" /\ result'.kind = "data") =>
            result'.meta.session_id = session_id']_vars

\* A fetch returned after cleaning its own session while an artifact of the
\* earlier session s2 is still there.
C26_Witness ==
    /\ Returned
    /\ cs_sid = session_id
    /\ result.meta.session_id = "s1"
    /\ cs_removed # <<>>
    /\ DebugFile("s2") \in fs

\* C30: whenever fetch_usage_via_pty has been left after it opened the
\* pseudo-terminal pair, by a return or by an exception, both descriptors
\* are closed.
C30_DescriptorsClosedWhenLeft ==
    (Left /\ master # "none") => (master = "closed" /\ slave = "closed")

\* C28: the output buffer only grows, and a field key extracted at a
\* snapshot tick is extracted again at every later tick and by the final
\* parse.
C28_ExtractedFieldsStay ==
    [][/\ Len(output') >= Len(output) /\ SubSeq(output', 1, Len(output)) = output
       /\ (pc = "poll" /\ last_check' # last_check /\ pc' # "raised") =>
             DOMAIN seen_fields \subseteq parsed_keys(strip_ansi(output'))
       /\ (pc = "teardown" /\ pc' = "returned") =>
             DOMAIN seen_fields \subseteq DOMAIN result'.fields]_vars

\* C29: the text strip_ansi returns holds no escape byte and no three
\* newlines in a row, for every input, cut sequences included; and text that
\* is part of no escape sequence is kept: a text without an escape byte
\* comes back with only its blank lines collapsed, and so does the text
\* that follows the two-byte sequence ESC 7.
C29_NoEscapeLeftTextKept ==
    Called("strip_ansi") =>
        /\ ESC \notin Range(c_ret)
        /\ \A i \in 1..(Len(c_ret) - 2) : ~(c_ret[i] = NL /\ c_ret[i + 1] = NL /\ c_ret[i + 2] = NL)
        /\ ESC \notin Range(c_args) => c_ret = re_sub("blank_lines", c_args, 1)
        /\ (Len(c_args) >= 2 /\ c_args[1] = ESC /\ c_args[2] = "7"
              /\ ESC \notin Range(SubSeq(c_args, 3, Len(c_args)))) =>
                c_ret = re_sub("blank_lines", SubSeq(c_args, 3, Len(c_args)), 1)

\* C27: the child leads its own process group, every process it starts is
\* in that group, and once the teardown has terminated or killed the group
\* no process of the group is running.
C27_WholeGroupTerminated ==
    /\ \A p \in DOMAIN g_pgid : g_pgid[p] = Child
    /\ g_pc \in {"waited", "left"} => g_alive = {}

\* C31: the keys of _meta.field_timings are the field names the extractor
\* returned at some tick or at the final parse: seen_fields starts empty, a
\* tick adds what it extracted and nothing else does until the final parse,
\* which adds the fields of the result with the total elapsed time; a key
\* seen at a tick keeps its entry and its time, in the result too, whether
\* or not the final parse extracts it.
C31_TimingKeysAreExtractedKeys ==
    [][/\ pc \in {"start", "spawn"} => DOMAIN seen_fields = {}
       /\ (pc = "poll" /\ last_check' # last_check /\ pc' # "raised") =>
             DOMAIN seen_fields' = DOMAIN seen_fields \cup parsed_keys(strip_ansi(output'))
       /\ (~(pc = "poll" /\ last_check' # last_check) /\ pc # "teardown") =>
             DOMAIN seen_fields' = DOMAIN seen_fields
       /\ (pc = "teardown" /\ pc' = "returned") =>
             LET timings == result'.meta.field_timings
             IN  /\ DOMAIN timings = DOMAIN seen_fields \cup DOMAIN result'.fields
                 /\ \A k \in DOMAIN seen_fields : timings[k] = seen_fields[k]
                 /\ \A k \in DOMAIN result'.fields \ DOMAIN seen_fields :
                        timings[k] = total_elapsed'
      ]_vars

\* A field was extracted at a tick and is absent from the fields of the
\* result, and has its timing entry.
C31_Witness ==
    /\ Returned
    /\ result.kind = "data"
    /\ \E k \in DOMAIN result.meta.field_timings :
          /\ k \notin DOMAIN result.fields
          /\ result.meta.field_timings[k] < total_elapsed

Ran(op) == \E i \in DOMAIN m_log : m_log[i] = op
\* When the run started, the cache file held a result stored at most
\* CACHE_MAX_AGE seconds before.
FreshResultAtStart ==
    /\ m_start.cache.kind = "json"
    /\ m_start.now - m_start.cache.mtime <= CACHE_MAX_AGE

\* C32: a run of main starts a fetch only with --force or without a cached
\* result stored at most CACHE_MAX_AGE seconds before; with such a result
\* and no --force it prints that result and does nothing else, the cache
\* file staying as it was and clean_history not being called; and the cache
\* file is changed only after a fetch that returned no error and at least
\* one usage field.
C32_FreshCacheSkipsFetch ==
    /\ Ran("fetch") => (m_argv.force \/ ~FreshResultAtStart)
    /\ (m_runs > 0 /\ ~m_argv.force /\ FreshResultAtStart) =>
          /\ m_cache = m_start.cache
          /\ m_log \in {<<>>, <<"print">>}
          /\ m_pc = "idle" =>
                /\ m_log = <<"print">>
                /\ m_stdout = [keys |-> m_start.cache.keys,
                               last_updated |-> m_start.cache.last_updated]
    /\ (m_cache # m_start.cache \/ Ran("write_cache")) =>
          /\ Ran("fetch")
          /\ "error" \notin m_data
          /\ m_data \cap Fields # {}

\* A run without --force found a result stored exactly CACHE_MAX_AGE
\* seconds before, printed it and ended.
C32_Witness ==
    /\ m_pc = "idle"
    /\ m_runs > 1
    /\ ~m_argv.force
    /\ m_start.cache.kind = "json"
    /\ m_start.now - m_start.cache.mtime = CACHE_MAX_AGE
    /\ m_log = <<"print">>
    /\ m_stdout.keys = m_start.cache.keys

\* The line at place i of the logs is a usage record that passes the
\* filters of the call.
PassesFilters(i) ==
    LET l == c_args.lines[i]
    IN  /\ l.type = "assistant"
        /\ c_args.since # NoTime => l.timestamp >= c_args.since
        /\ c_args.until # NoTime => l.timestamp <= c_args.until
        /\ c_args.project_filter # NoFilter => l.project = "Foo"
HasBothIds(i) == c_args.lines[i].message_id # <<>> /\ c_args.lines[i].request_id # <<>>
IdPair(i) == <<c_args.lines[i].message_id, c_args.lines[i].request_id>>
\* The places of the records the call is to return.
FirstOfEachKey ==
    {i \in DOMAIN c_args.lines :
        /\ PassesFilters(i)
        /\ HasBothIds(i) =>
              \A j \in 1..(i - 1) :
                  (PassesFilters(j) /\ HasBothIds(j)) => IdPair(j) # IdPair(i)}

\* C33: load_all_records returns, once each, the records that pass the
\* filters and either lack a message id or a request id or are the first
\* in file order, among the records that pass the filters, with their pair
\* (message_id, request_id); and no other record.
C33_FirstOfEachKeyReturned ==
    Called("load_all_records") =>
        /\ {c_ret[k].at : k \in DOMAIN c_ret} = FirstOfEachKey
        /\ Len(c_ret) = Cardinality(FirstOfEachKey)

====
